---- MODULE Spec2Model ----
(***************************************************************************)
(* TuCan server.js (src/unnamed/part_000): WhatsApp translator bot.        *)
(* The model covers the users table, the asynchronous message handler      *)
(* handleIncoming (one step per database round trip), the messaging        *)
(* webhook with its first-contact check, and the Stripe webhook.           *)
(* Texts are sequences of one-character strings so that the regular        *)
(* expressions and pickLang are computed character by character.           *)
(***************************************************************************)
EXTENDS Integers, Sequences, FiniteSets, TLC

Null == "null"

\* ------------------------------------------------------------------ texts

UpperChars == <<"A","B","C","D","E","F","G","H","I","J","K","L","M",
                "N","O","P","Q","R","S","T","U","V","W","X","Y","Z">>
LowerChars == <<"a","b","c","d","e","f","g","h","i","j","k","l","m",
                "n","o","p","q","r","s","t","u","v","w","x","y","z">>

\* String.prototype.toLowerCase on one character
LowerChar(c) ==
  IF \E i \in 1..26 : UpperChars[i] = c
  THEN LowerChars[CHOOSE i \in 1..26 : UpperChars[i] = c]
  ELSE c

toLowerCase(t) == [i \in 1..Len(t) |-> LowerChar(t[i])]

\* String.prototype.trim: leading and trailing blanks removed
RECURSIVE TrimLeft(_)
TrimLeft(t) == IF Len(t) > 0 /\ t[1] = " " THEN TrimLeft(Tail(t)) ELSE t
RECURSIVE TrimRight(_)
TrimRight(t) ==
  IF Len(t) > 0 /\ t[Len(t)] = " " THEN TrimRight(SubSeq(t, 1, Len(t) - 1)) ELSE t
trim(t) == TrimRight(TrimLeft(t))

\* regex \d
IsDigit(c) == c \in {"0","1","2","3","4","5","6","7","8","9"}

\* an unanchored regex alternative: w occurs somewhere in t
Includes(t, w) ==
  \E i \in 1..(Len(t) - Len(w) + 1) : SubSeq(t, i, i + Len(w) - 1) = w

\* the texts used as message bodies and as regex alternatives
TxtEmpty == << >>
Txt1 == <<"1">>
Txt2 == <<"2">>
Txt3 == <<"3">>
Txt4 == <<"4">>
Txt5 == <<"5">>
TxtReset == <<"r","e","s","e","t">>
TxtResetCaps == <<"R","e","s","e","t">>
TxtChangeLanguage == <<"c","h","a","n","g","e"," ","l","a","n","g","u","a","g","e">>
TxtChangeLanguageCaps == <<"C","h","a","n","g","e"," ","L","a","n","g","u","a","g","e">>
Txt12 == <<"1", "2">>

TxtHola == <<"H","o","l","a">>
TxtES == <<"E","S">>
TxtMale == <<"m","a","l","e">>
TxtFemale == <<"f","e","m","a","l","e">>
TxtMasculina == <<"m","a","s","c","u","l","i","n","a">>
TxtFemenina == <<"f","e","m","e","n","i","n","a">>
TxtMaennlich == <<"m","ä","n","n","l","i","c","h">>
TxtWeiblich == <<"w","e","i","b","l","i","c","h">>

\* ------------------------------------------------------------------ menu

\* faulty variant: the entries 4 and 5 carry each other's code
MENU_Swapped ==
  [d \in {"1","2","3","4","5"} |->
     CASE d = "1" -> [name |-> <<"E","n","g","l","i","s","h">>, code |-> "en"]
       [] d = "2" -> [name |-> <<"S","p","a","n","i","s","h">>, code |-> "es"]
       [] d = "3" -> [name |-> <<"F","r","e","n","c","h">>, code |-> "fr"]
       [] d = "4" -> [name |-> <<"P","o","r","t","u","g","u","e","s","e">>, code |-> "de"]
       [] d = "5" -> [name |-> <<"G","e","r","m","a","n">>, code |-> "pt"]]

\* const MENU: digit -> {name, code}
MENU ==
  [d \in {"1","2","3","4","5"} |->
     CASE d = "1" -> [name |-> <<"E","n","g","l","i","s","h">>, code |-> "en"]
       [] d = "2" -> [name |-> <<"S","p","a","n","i","s","h">>, code |-> "es"]
       [] d = "3" -> [name |-> <<"F","r","e","n","c","h">>, code |-> "fr"]
       [] d = "4" -> [name |-> <<"P","o","r","t","u","g","u","e","s","e">>, code |-> "pt"]
       [] d = "5" -> [name |-> <<"G","e","r","m","a","n">>, code |-> "de"]]

DIGITS == <<"1","2","3","4","5">>

\* a language code as the text that spells it
CodeText(code) ==
  CASE code = "en" -> <<"e","n">>
    [] code = "es" -> <<"e","s">>
    [] code = "fr" -> <<"f","r">>
    [] code = "pt" -> <<"p","t">>
    [] code = "de" -> <<"d","e">>

NoLang == [name |-> << >>, code |-> Null]

\* pickLang: a leading digit that is a MENU key, else an exact
\* case-insensitive match of a code or a name; undefined otherwise
pickLang(txt) ==
  LET t  == trim(txt)
      lc == toLowerCase(txt)
      hits == {d \in DOMAIN MENU :
                 CodeText(MENU[d].code) = lc \/ toLowerCase(MENU[d].name) = lc}
  IN IF Len(t) > 0 /\ IsDigit(t[1]) /\ t[1] \in DOMAIN MENU
     THEN MENU[t[1]]
     ELSE IF hits # {} THEN MENU[CHOOSE d \in hits : TRUE] ELSE NoLang

\* the two regex tests of STEP 2; the FEMALE test runs last and wins
pickGender(text) ==
  LET m == text = Txt1
           \/ Includes(toLowerCase(text), TxtMale)
           \/ Includes(toLowerCase(text), TxtMasculina)
           \/ Includes(toLowerCase(text), TxtMaennlich)
      f == text = Txt2
           \/ Includes(toLowerCase(text), TxtFemale)
           \/ Includes(toLowerCase(text), TxtFemenina)
           \/ Includes(toLowerCase(text), TxtWeiblich)
  IN IF f THEN "FEMALE" ELSE IF m THEN "MALE" ELSE Null

\* /^[1-3]$/.test(text)
IsTierDigit(text) == Len(text) = 1 /\ text[1] \in {"1","2","3"}

\* /^(reset|change language)$/i.test(text)
IsResetCmd(text) == toLowerCase(text) \in {TxtReset, TxtChangeLanguage}

\* text==="1"?"monthly":text==="2"?"annual":"life"
TierOf(text) == IF text = Txt1 THEN "monthly" ELSE IF text = Txt2 THEN "annual" ELSE "life"

\* faulty variant: every string is rendered in English
tr_English(lang) == "en"

\* tr(lang,key): the language a wizard string is rendered in
tr(lang) == IF lang \in {"en","es","fr","pt","de"} THEN lang ELSE "en"


\* ------------------------------------------------------------------ bounds

\* translation log entries kept (the translations table is append-only)
MaxLog == 2

\* inbound requests of one run when requests are handled concurrently
MaxMsgs == 3

\* the free quota of the pay-wall
Quota == 5

\* ------------------------------------------------------------------ state

Sender == "p1"
Bystander == "p2"
Phones == {Sender, Bystander}
Slots == {"a", "b"}

VARIABLES
  users,      \* table users: phone number -> row
  h,          \* per in-flight webhook request: handleIncoming's position and locals
  log,        \* table translations
  sessions,   \* checkout sessions created at the payment provider
  subs,       \* subscriptions alive at the payment provider
  nextCust,   \* customers created at the payment provider so far
  stripeRes,  \* status of the last answer of /stripe-webhook (0: none yet)
  received,   \* inbound requests counted against MaxMsgs
  voiceCache, \* the process-wide voice catalog by language; loaded: no longer null
  preload     \* position of the preload of the voice catalog started at startup

vars == <<users, h, log, sessions, subs, nextCust, stripeRes, received, voiceCache, preload>>

NoRow ==
  [exists |-> FALSE, language_step |-> Null, source_lang |-> Null,
   target_lang |-> Null, voice_gender |-> Null, ui_lang |-> Null,
   plan |-> Null, free_used |-> 0, stripe_cust_id |-> Null, stripe_sub_id |-> Null]

ReadyRow(src, tgt, used) ==
  [exists |-> TRUE, language_step |-> "ready", source_lang |-> src,
   target_lang |-> tgt, voice_gender |-> "FEMALE", ui_lang |-> src,
   plan |-> "FREE", free_used |-> used, stripe_cust_id |-> Null, stripe_sub_id |-> Null]

\* a user who chose the own language and is asked for the receive language
TargetRow(src) ==
  [exists |-> TRUE, language_step |-> "target", source_lang |-> src,
   target_lang |-> Null, voice_gender |-> Null, ui_lang |-> src,
   plan |-> "FREE", free_used |-> 0, stripe_cust_id |-> Null, stripe_sub_id |-> Null]

\* a user who bought the lifetime tier
LifetimeRow ==
  [exists |-> TRUE, language_step |-> "ready", source_lang |-> "es",
   target_lang |-> "en", voice_gender |-> "MALE", ui_lang |-> "es",
   plan |-> "LIFETIME", free_used |-> 0, stripe_cust_id |-> "cus9",
   stripe_sub_id |-> Null]

\* a paying user of another phone number
PaidRow ==
  [exists |-> TRUE, language_step |-> "ready", source_lang |-> "en",
   target_lang |-> "fr", voice_gender |-> "MALE", ui_lang |-> "en",
   plan |-> "MONTHLY", free_used |-> 0, stripe_cust_id |-> "cus0",
   stripe_sub_id |-> "sub_cus0_monthly"]

CustId(n) == CASE n = 1 -> "cus1" [] n = 2 -> "cus2" [] n = 3 -> "cus3" [] OTHER -> "cus4"

\* the subscription the provider opens when a subscription-mode session completes
SubId(cust, tier) == "sub_" \o cust \o "_" \o tier

IdleSlot ==
  [pc |-> "idle", fc |-> "idle", text |-> << >>, num |-> 0, user |-> NoRow,
   out |-> << >>, route |-> Null, detected |-> Null, dest |-> Null,
   cust |-> Null, threw |-> FALSE, tts |-> Null,
   ack |-> 0, err |-> Null, raw |-> FALSE, wav |-> FALSE, up |-> << >>,
   asr |-> << >>, voice |-> Null, syn |-> << >>, mediaType |-> Null, mediaSize |-> 0]

Msg(k, l) == [k |-> k, l |-> l]

\* sendMessage appends to what the request has sent
Send(slot, msgs) == [slot EXCEPT !.out = @ \o msgs]

isFree(user) == user.plan = Null \/ user.plan = "FREE"

\* ------------------------------------------------------------------ Init

\* the tables and the provider's state at start, for a set of sender rows
InitWith(rows, alive) ==
  /\ users \in {[p \in Phones |-> IF p = Sender THEN r ELSE PaidRow] : r \in rows}
  /\ h = [s \in Slots |-> IdleSlot]
  /\ log = << >>
  /\ sessions = {}
  /\ subs = alive
  /\ nextCust = 0
  /\ stripeRes = 0
  /\ received = 0
  /\ voiceCache = [loaded |-> FALSE, voices |-> << >>]
  /\ preload = "start"


\* ------------------------------------------------------------------ handleIncoming

\* languages the detection endpoint may answer with
DetectLangs == {"en", "es", "fr"}

\* user.ui_lang||"en"
UiOf(u) == IF u.ui_lang = Null THEN "en" ELSE u.ui_lang

\* handleIncoming returns or throws: its locals are gone; what the request
\* sent, the branch it took, the response it got, the call that failed and
\* the temporary files it left stay on record until the slot is used again
Finish(slot) ==
  [IdleSlot EXCEPT !.pc = "done", !.fc = slot.fc, !.num = slot.num,
                   !.out = slot.out, !.route = slot.route, !.threw = slot.threw,
                   !.tts = slot.tts, !.ack = slot.ack, !.err = slot.err,
                   !.raw = slot.raw, !.wav = slot.wav, !.up = slot.up,
                   !.asr = slot.asr, !.voice = slot.voice, !.syn = slot.syn]

\* the row after the upsert of the create branch: the given columns are
\* written, on conflict too; the other columns keep their values
UpsertRow(row) ==
  [row EXCEPT !.exists = TRUE, !.language_step = "ui", !.plan = "FREE", !.free_used = 0]

\* faulty variant: the reset update also clears the usage count
ResetRow_ClearsUsage(row) ==
  [row EXCEPT !.language_step = "ui", !.source_lang = Null, !.target_lang = Null,
              !.voice_gender = Null, !.ui_lang = Null, !.free_used = 0]

\* faulty variant: the reset update forgets ui_lang
ResetRow_KeepsUi(row) ==
  [row EXCEPT !.language_step = "ui", !.source_lang = Null, !.target_lang = Null,
              !.voice_gender = Null]

\* the row after the reset command's update
ResetRow(row) ==
  [row EXCEPT !.language_step = "ui", !.source_lang = Null, !.target_lang = Null,
              !.voice_gender = Null, !.ui_lang = Null]

\* faulty variant: the wizard update is applied only while the stored step is
\* still the step the handler read
WizardRow_Checked(row, user, text) ==
  IF row.language_step # user.language_step THEN row
  ELSE CASE user.language_step = "ui" ->
              [row EXCEPT !.ui_lang = pickLang(text).code,
                          !.source_lang = pickLang(text).code,
                          !.language_step = "target"]
         [] user.language_step = "target" ->
              [row EXCEPT !.target_lang = pickLang(text).code, !.language_step = "gender"]
         [] user.language_step = "gender" ->
              [row EXCEPT !.voice_gender = pickGender(text), !.language_step = "ready"]

\* faulty variant: the receive-language step marks the user ready, skipping the gender
WizardRow_SkipsGender(row, user, text) ==
  CASE user.language_step = "ui" ->
         [row EXCEPT !.ui_lang = pickLang(text).code,
                     !.source_lang = pickLang(text).code,
                     !.language_step = "target"]
    [] user.language_step = "target" ->
         [row EXCEPT !.target_lang = pickLang(text).code, !.language_step = "ready"]
    [] user.language_step = "gender" ->
         [row EXCEPT !.voice_gender = pickGender(text), !.language_step = "ready"]

\* the row after the update of the wizard step the handler read
WizardRow(row, user, text) ==
  CASE user.language_step = "ui" ->
         [row EXCEPT !.ui_lang = pickLang(text).code,
                     !.source_lang = pickLang(text).code,
                     !.language_step = "target"]
    [] user.language_step = "target" ->
         [row EXCEPT !.target_lang = pickLang(text).code, !.language_step = "gender"]
    [] user.language_step = "gender" ->
         [row EXCEPT !.voice_gender = pickGender(text), !.language_step = "ready"]

\* what the wizard step sends after its update
WizardReplies(user, text) ==
  CASE user.language_step = "ui" ->
         <<Msg("how", tr(pickLang(text).code)), Msg("receiveMenu", tr(pickLang(text).code))>>
    [] user.language_step = "target" -> <<Msg("voice", tr(UiOf(user)))>>
    [] user.language_step = "gender" -> <<Msg("setupDone", tr(UiOf(user)))>>

\* whether the reply is a valid choice for the wizard step the handler read
WizardAccepts(user, text) ==
  CASE user.language_step = "ui" -> pickLang(text) # NoLang
    [] user.language_step = "target" ->
         pickLang(text) # NoLang /\ pickLang(text).code # user.source_lang
    [] user.language_step = "gender" -> pickGender(text) # Null
    [] OTHER -> FALSE

\* the re-prompt of a wizard step for a reply it does not accept
WizardReprompt(user, text) ==
  CASE user.language_step = "ui" -> Msg("reply1to5+chooseMenu", "en")
    [] user.language_step = "target" ->
         IF pickLang(text) = NoLang
         THEN Msg("reply1to5+receiveMenu", tr(UiOf(user)))
         ELSE Msg("targetDiff+receiveMenu", tr(UiOf(user)))
    [] user.language_step = "gender" -> Msg("genderErr", tr(UiOf(user)))

\* faulty variant: the quota compared with > instead of >=
IsTierReply_Strict(user, text) ==
  IsTierDigit(text) /\ isFree(user) /\ user.free_used > Quota

\* the pay-wall quick-reply test
IsTierReply(user, text) == IsTierDigit(text) /\ isFree(user) /\ user.free_used >= Quota

\* faulty variant: the gate compares with > instead of >=
OverQuota_Strict(user) == isFree(user) /\ user.free_used > Quota

\* the PAYWALL gate
OverQuota(user) == isFree(user) /\ user.free_used >= Quota

\* the branch handleIncoming takes once it holds the user row: the tests in
\* the order of the code, up to the next database or provider call
Route(slot, user) ==
  LET r == [slot EXCEPT !.user = user] IN
  IF IsTierReply(user, r.text)
  THEN [r EXCEPT !.route = "billing", !.cust = user.stripe_cust_id,
                 !.pc = IF user.stripe_cust_id = Null THEN "customer" ELSE "session"]
  ELSE IF IsResetCmd(r.text)
  THEN [r EXCEPT !.route = "reset", !.pc = "reset"]
  ELSE IF OverQuota(user)
  THEN Finish(Send([r EXCEPT !.route = "paywall"], <<Msg("paywall", tr(UiOf(user)))>>))
  ELSE IF user.language_step \in {"ui", "target", "gender"}
  THEN IF WizardAccepts(user, r.text)
       THEN [r EXCEPT !.route = "wizard", !.pc = "wizard"]
       ELSE Finish(Send([r EXCEPT !.route = "reprompt"], <<WizardReprompt(user, r.text)>>))
  ELSE IF user.source_lang = Null \/ user.target_lang = Null \/ user.voice_gender = Null
  THEN Finish(Send([r EXCEPT !.route = "incomplete"], <<Msg("setupIncomplete", "en")>>))
  ELSE [r EXCEPT !.route = "pipeline", !.pc = "translate"]

\* faulty variant: the detected language compared with source_lang
Dest_TestsSource(user, detected) ==
  IF detected = user.source_lang THEN user.source_lang ELSE user.target_lang

\* const dest= detected===user.target_lang ? user.source_lang : user.target_lang
Dest(user, detected) ==
  IF detected = user.target_lang THEN user.source_lang ELSE user.target_lang

\* faulty variant: the usage update also swaps the stored direction
UsageRow_FlipsDirection(row, user) ==
  IF isFree(user)
  THEN [row EXCEPT !.free_used = user.free_used + 1,
                   !.source_lang = row.target_lang, !.target_lang = row.source_lang]
  ELSE row

\* faulty variant: the usage update counts a translation twice
UsageRow_CountsTwice(row, user) ==
  IF isFree(user) THEN [row EXCEPT !.free_used = user.free_used + 2] ELSE row

\* the row after the usage update: the value read at the start plus one
UsageRow(row, user) ==
  IF isFree(user) THEN [row EXCEPT !.free_used = user.free_used + 1] ELSE row

\* faulty variant: the early return for text messages is missing
PipelineReplies_NoEarlyReturn(slot, audio) ==
  <<Msg("transcript", slot.detected), Msg("translation", slot.dest)>>
    \o (IF audio THEN <<Msg("audio", slot.dest)>> ELSE << >>)

\* the replies of the translation phase
PipelineReplies(slot, audio) ==
  IF slot.num = 0
  THEN <<Msg("translation", slot.dest)>>
  ELSE <<Msg("transcript", slot.detected), Msg("translation", slot.dest)>>
       \o (IF audio THEN <<Msg("audio", slot.dest)>> ELSE << >>)

\* ------------------------------------------------------------------ actions

\* no request of the sender is being handled
Quiet == \A s \in Slots : h[s].pc \in {"idle", "done"} /\ h[s].fc # "pending"

\* faulty variant: the response is left for after the handler
Accepted_NoAck(body, num) ==
  [IdleSlot EXCEPT !.pc = "select", !.fc = "pending", !.text = trim(body), !.num = num]

\* the request once the route's callback has run: the empty envelope is sent
\* (ack counts the responses), then the two asynchronous chains are started
Accepted(body, num) ==
  [IdleSlot EXCEPT !.ack = 1, !.pc = "select", !.fc = "pending",
                   !.text = trim(body), !.num = num]

\* POST /webhook: the first-contact check and handleIncoming are both started
Webhook(s, body, num) ==
  /\ h[s].pc \in {"idle", "done"}
  /\ h[s].fc # "pending"
  /\ h' = [h EXCEPT ![s] = Accepted(body, num)]
  /\ UNCHANGED <<users, log, sessions, subs, nextCust, stripeRes, voiceCache, preload>>

\* the first-contact select resolves: a welcome menu when no row is found
FirstContact(s) ==
  /\ h[s].fc = "pending"
  /\ h' = [h EXCEPT ![s] = IF users[Sender].exists
                           THEN [@ EXCEPT !.fc = "known"]
                           ELSE [Send(@, <<Msg("welcome", "en")>>) EXCEPT !.fc = "welcomed"]]
  /\ UNCHANGED <<users, log, sessions, subs, nextCust, stripeRes, received, voiceCache, preload>>

\* fetch user; an existing row is routed at once
SelectUser(s) ==
  /\ h[s].pc = "select"
  /\ h' = [h EXCEPT ![s] = IF users[Sender].exists
                           THEN Route(@, users[Sender])
                           ELSE [@ EXCEPT !.pc = "upsert"]]
  /\ UNCHANGED <<users, log, sessions, subs, nextCust, stripeRes, received, voiceCache, preload>>

\* create user: upsert, read back, route
UpsertUser(s) ==
  /\ h[s].pc = "upsert"
  /\ users' = [users EXCEPT ![Sender] = UpsertRow(@)]
  /\ h' = [h EXCEPT ![s] = Route(@, UpsertRow(users[Sender]))]
  /\ UNCHANGED <<log, sessions, subs, nextCust, stripeRes, received, voiceCache, preload>>

\* faulty variant: the welcome menu of a reset in the user's language
ResetReply_Localised(user) == Msg("welcome", tr(UiOf(user)))

\* the welcome menu of a reset: a literal English text
ResetReply(user) == Msg("welcome", "en")

\* reset: update, then the welcome menu
ResetCmd(s) ==
  /\ h[s].pc = "reset"
  /\ users' = [users EXCEPT ![Sender] = ResetRow(@)]
  /\ h' = [h EXCEPT ![s] = Finish(Send(@, <<ResetReply(h[s].user)>>))]
  /\ UNCHANGED <<log, sessions, subs, nextCust, stripeRes, received, voiceCache, preload>>

\* an accepted wizard reply: update, then the step's messages
WizardStep(s) ==
  /\ h[s].pc = "wizard"
  /\ users' = [users EXCEPT ![Sender] = WizardRow(@, h[s].user, h[s].text)]
  /\ h' = [h EXCEPT ![s] = Finish(Send(@, WizardReplies(h[s].user, h[s].text)))]
  /\ UNCHANGED <<log, sessions, subs, nextCust, stripeRes, received, voiceCache, preload>>

\* media fetch, transcription, language detection and translation fail
TranslateFails(s) ==
  /\ h[s].pc = "translate"
  /\ h[s].num > 0 \/ h[s].text # << >>
  /\ h' = [h EXCEPT ![s] = Finish([@ EXCEPT !.threw = TRUE])]
  /\ UNCHANGED <<users, log, sessions, subs, nextCust, stripeRes, received, voiceCache, preload>>

\* nothing to translate: no text and no media, or an empty transcript
TranslateNothing(s) ==
  /\ h[s].pc = "translate"
  /\ h[s].num > 0 \/ h[s].text = << >>
  /\ h' = [h EXCEPT ![s] = Finish(Send(@, <<Msg("sendTextOrVoice", "en")>>))]
  /\ UNCHANGED <<users, log, sessions, subs, nextCust, stripeRes, received, voiceCache, preload>>

\* original and detected obtained, dest computed, translation obtained
Translate(s, detected) ==
  /\ h[s].pc = "translate"
  /\ h[s].num > 0 \/ h[s].text # << >>
  /\ Len(log) < MaxLog
  /\ h' = [h EXCEPT ![s] = [@ EXCEPT !.detected = detected,
                                      !.dest = Dest(h[s].user, detected),
                                      !.pc = "usage"]]
  /\ UNCHANGED <<users, log, sessions, subs, nextCust, stripeRes, received, voiceCache, preload>>

\* usage + log
Usage(s) ==
  /\ h[s].pc = "usage"
  /\ users' = [users EXCEPT ![Sender] = UsageRow(@, h[s].user)]
  /\ log' = Append(log, [phone_number |-> Sender, language_from |-> h[s].detected,
                         language_to |-> h[s].dest])
  /\ h' = [h EXCEPT ![s].pc = "reply"]
  /\ UNCHANGED <<sessions, subs, nextCust, stripeRes, received, voiceCache, preload>>

\* reply; audio tells whether tts and uploadAudio both succeeded
Reply(s, audio) ==
  /\ h[s].pc = "reply"
  /\ h[s].num = 0 => audio = FALSE
  /\ h' = [h EXCEPT ![s] =
             Finish(Send([@ EXCEPT !.tts = IF h[s].num = 0 THEN "skipped"
                                           ELSE IF audio THEN "ok" ELSE "failed"],
                         PipelineReplies(h[s], audio)))]
  /\ UNCHANGED <<users, log, sessions, subs, nextCust, stripeRes, received, voiceCache, preload>>

\* ensureCustomer without a stored id: create the customer, store its id
EnsureCustomer(s) ==
  /\ h[s].pc = "customer"
  /\ nextCust' = nextCust + 1
  /\ users' = [users EXCEPT ![Sender].stripe_cust_id = CustId(nextCust + 1)]
  /\ h' = [h EXCEPT ![s] = [@ EXCEPT !.cust = CustId(nextCust + 1), !.pc = "session"]]
  /\ UNCHANGED <<log, sessions, subs, stripeRes, received, voiceCache, preload>>

\* the checkout session the provider holds: tier in the metadata, mode by tier
Session(cust, tier) ==
  [customer |-> cust, tier |-> tier,
   mode |-> IF tier = "life" THEN "payment" ELSE "subscription"]

\* stripe.checkout.sessions.create succeeds: the link is sent
CreateSession(s) ==
  /\ h[s].pc = "session"
  /\ sessions' = sessions \cup {Session(h[s].cust, TierOf(h[s].text))}
  /\ h' = [h EXCEPT ![s] = Finish(Send(@, <<Msg("payLink", "en")>>))]
  /\ UNCHANGED <<users, log, subs, nextCust, stripeRes, received, voiceCache, preload>>

\* a provider call of checkoutUrl throws: the catch sends the error message
CheckoutFails(s) ==
  /\ h[s].pc \in {"customer", "session"}
  /\ h' = [h EXCEPT ![s] = Finish(Send(@, <<Msg("payError", "en")>>))]
  /\ UNCHANGED <<users, log, sessions, subs, nextCust, stripeRes, received, voiceCache, preload>>


\* ------------------------------------------------------------------ failures

\* POST /webhook without a body or without From: the envelope, nothing else
WebhookNoFrom(s) ==
  /\ h[s].pc \in {"idle", "done"}
  /\ h[s].fc # "pending"
  /\ h' = [h EXCEPT ![s] = [IdleSlot EXCEPT !.ack = 1, !.pc = "done"]]
  /\ UNCHANGED <<users, log, sessions, subs, nextCust, stripeRes, received, voiceCache, preload>>

\* fetch user fails: the client answers {data:null, error} and does not throw,
\* so the handler goes on to create the user
SelectFails(s) ==
  /\ h[s].pc = "select"
  /\ h' = [h EXCEPT ![s] = [@ EXCEPT !.pc = "upsert", !.err = "select"]]
  /\ UNCHANGED <<users, log, sessions, subs, nextCust, stripeRes, received, voiceCache, preload>>

\* create user fails: user is null and reading user.plan throws
UpsertFails(s) ==
  /\ h[s].pc = "upsert"
  /\ h' = [h EXCEPT ![s] = Finish([@ EXCEPT !.threw = TRUE, !.err = "upsert"])]
  /\ UNCHANGED <<users, log, sessions, subs, nextCust, stripeRes, received, voiceCache, preload>>

\* media branch: the media is fetched and written to the raw temporary file
FetchMedia(s) ==
  /\ h[s].pc = "translate"
  /\ h[s].num > 0
  /\ h' = [h EXCEPT ![s] = [@ EXCEPT !.raw = TRUE, !.pc = "towav"]]
  /\ UNCHANGED <<users, log, sessions, subs, nextCust, stripeRes, received, voiceCache, preload>>

\* the media fetch throws: no file was written
FetchFails(s) ==
  /\ h[s].pc = "translate"
  /\ h[s].num > 0
  /\ h' = [h EXCEPT ![s] = Finish([@ EXCEPT !.threw = TRUE, !.err = "fetch"])]
  /\ UNCHANGED <<users, log, sessions, subs, nextCust, stripeRes, received, voiceCache, preload>>

\* toWav resolves: the WAV file is written
ToWav(s) ==
  /\ h[s].pc = "towav"
  /\ h' = [h EXCEPT ![s] = [@ EXCEPT !.wav = TRUE, !.pc = "whisper"]]
  /\ UNCHANGED <<users, log, sessions, subs, nextCust, stripeRes, received, voiceCache, preload>>

\* toWav rejects, before the try block is entered: nothing is unlinked;
\* partial tells whether the transcoder had created its output file
ToWavFails(s, partial) ==
  /\ h[s].pc = "towav"
  /\ h' = [h EXCEPT ![s] = Finish([@ EXCEPT !.threw = TRUE, !.err = "towav",
                                            !.wav = partial])]
  /\ UNCHANGED <<users, log, sessions, subs, nextCust, stripeRes, received, voiceCache, preload>>

\* whisper answers on the primary or the secondary model, the language is
\* known, finally unlinks both files; dest and the translation follow
Whisper(s, detected) ==
  /\ h[s].pc = "whisper"
  /\ Len(log) < MaxLog
  /\ h' = [h EXCEPT ![s] = [@ EXCEPT !.raw = FALSE, !.wav = FALSE,
                                      !.detected = detected,
                                      !.dest = Dest(h[s].user, detected),
                                      !.pc = "usage"]]
  /\ UNCHANGED <<users, log, sessions, subs, nextCust, stripeRes, received, voiceCache, preload>>

\* whisper fails on the primary model and again on the secondary one: the
\* second error leaves whisper, finally unlinks both files, handleIncoming
\* rejects and the catch of /webhook logs it
WhisperFails(s) ==
  /\ h[s].pc = "whisper"
  /\ h' = [h EXCEPT ![s] = Finish([@ EXCEPT !.raw = FALSE, !.wav = FALSE,
                                            !.threw = TRUE, !.err = "whisper"])]
  /\ UNCHANGED <<users, log, sessions, subs, nextCust, stripeRes, received, voiceCache, preload>>

\* whisper answers without a language and detectLang throws inside the try
DetectFails(s) ==
  /\ h[s].pc = "whisper"
  /\ h' = [h EXCEPT ![s] = Finish([@ EXCEPT !.raw = FALSE, !.wav = FALSE,
                                            !.threw = TRUE, !.err = "detect"])]
  /\ UNCHANGED <<users, log, sessions, subs, nextCust, stripeRes, received, voiceCache, preload>>

\* ------------------------------------------------------------------ stripe webhook

\* an event as the provider signs it
Event(type, customer, subscription, tier, uid) ==
  [sig |-> TRUE, type |-> type, customer |-> customer,
   subscription |-> subscription, tier |-> tier, uid |-> uid]

\* the event of a completed checkout session; checkoutUrl puts no uid in the metadata
CompletedEvent(sess) ==
  Event("checkout.session.completed", sess.customer,
        IF sess.mode = "subscription" THEN SubId(sess.customer, sess.tier) ELSE Null,
        sess.tier, Null)

DeletedEvent(sub) == Event("customer.subscription.deleted", Null, sub, Null, Null)

\* requests whose signature does not verify: any body
ForgedRequests ==
  {[Event(type, customer, subscription, tier, uid) EXCEPT !.sig = FALSE] :
     type \in {"checkout.session.completed", "customer.subscription.deleted"},
     customer \in {"cus0", "cus1"},
     subscription \in {"sub_cus0_monthly"},
     tier \in {"life"},
     uid \in {Sender}}

\* faulty variant: the event is parsed without verifying the signature
SignatureOk_Unverified(req) == TRUE

\* constructEvent throws unless the signature verifies
SignatureOk(req) == req.sig

\* faulty variant: the annual tier is stored as MONTHLY
PlanOf_AnnualAsMonthly(tier) ==
  IF tier \in {"monthly", "annual"} THEN "MONTHLY" ELSE "LIFETIME"

\* s.metadata.tier==="monthly"?"MONTHLY":s.metadata.tier==="annual"?"ANNUAL":"LIFETIME"
PlanOf(tier) ==
  IF tier = "monthly" THEN "MONTHLY" ELSE IF tier = "annual" THEN "ANNUAL" ELSE "LIFETIME"

\* faulty variant: a completed session without a subscription leaves the
\* stored subscription id in place
CompletedRows_KeepsSubId(tbl, ev) ==
  [p \in Phones |->
     IF tbl[p].exists /\ tbl[p].stripe_cust_id = ev.customer
     THEN [tbl[p] EXCEPT !.plan = PlanOf(ev.tier), !.free_used = 0,
                         !.stripe_sub_id = IF ev.subscription = Null THEN @
                                           ELSE ev.subscription]
     ELSE tbl[p]]

\* checkout.session.completed: update by customer id, and by metadata uid when
\* the first update reports zero rows
CompletedRows(tbl, ev) ==
  LET byCust == {p \in Phones : tbl[p].exists /\ tbl[p].stripe_cust_id = ev.customer}
      first  == [p \in Phones |->
                   IF p \in byCust
                   THEN [tbl[p] EXCEPT !.plan = PlanOf(ev.tier), !.free_used = 0,
                                       !.stripe_sub_id = ev.subscription]
                   ELSE tbl[p]]
  IN IF byCust = {}
     THEN [p \in Phones |->
             IF tbl[p].exists /\ p = ev.uid
             THEN [tbl[p] EXCEPT !.plan = PlanOf(ev.tier), !.free_used = 0,
                                 !.stripe_cust_id = ev.customer,
                                 !.stripe_sub_id = ev.subscription]
             ELSE tbl[p]]
     ELSE first

\* faulty variant: the downgrade also forgets the subscription id
DeletedRows_ClearsSubId(tbl, ev) ==
  [p \in Phones |->
     IF tbl[p].exists /\ tbl[p].stripe_sub_id = ev.subscription
     THEN [tbl[p] EXCEPT !.plan = "FREE", !.stripe_sub_id = Null]
     ELSE tbl[p]]

\* customer.subscription.deleted: plan FREE where stripe_sub_id matches
DeletedRows(tbl, ev) ==
  [p \in Phones |->
     IF tbl[p].exists /\ tbl[p].stripe_sub_id = ev.subscription
     THEN [tbl[p] EXCEPT !.plan = "FREE"]
     ELSE tbl[p]]

\* the users table after the handler of POST /stripe-webhook
StripeRows(tbl, req) ==
  IF ~SignatureOk(req) THEN tbl
  ELSE IF req.type = "checkout.session.completed" THEN CompletedRows(tbl, req)
  ELSE IF req.type = "customer.subscription.deleted" THEN DeletedRows(tbl, req)
  ELSE tbl

\* the status the handler answers with
StripeStatus(req) == IF SignatureOk(req) THEN 200 ELSE 400

StripeWebhook(req) ==
  /\ users' = StripeRows(users, req)
  /\ stripeRes' = StripeStatus(req)

\* the sender pays a checkout session: the provider opens the subscription
\* (subscription mode) and delivers the signed event
CheckoutCompleted(sess) ==
  /\ sess \in sessions
  /\ StripeWebhook(CompletedEvent(sess))
  /\ subs' = IF sess.mode = "subscription"
             THEN subs \cup {SubId(sess.customer, sess.tier)} ELSE subs
  /\ UNCHANGED <<h, log, sessions, nextCust, received, voiceCache, preload>>

\* a subscription ends at the provider, which delivers the signed event
SubscriptionDeleted(sub) ==
  /\ sub \in subs
  /\ StripeWebhook(DeletedEvent(sub))
  /\ subs' = subs \ {sub}
  /\ UNCHANGED <<h, log, sessions, nextCust, received, voiceCache, preload>>

\* a request that fails signature verification
ForgedWebhook(req) ==
  /\ req \in ForgedRequests
  /\ StripeWebhook(req)
  /\ UNCHANGED <<h, log, sessions, subs, nextCust, received, voiceCache, preload>>

\* ------------------------------------------------------------------ voice reply, uploadAudio

\* what a storage upload may answer: stored, an error whose message says
\* "Bucket not found", or another error
UploadResults == {"ok", "notfound", "error"}

\* what createBucket may answer: created, the error code the helper
\* tolerates, or another error
BucketResults == {"ok", "PGRST116", "error"}

\* one storage call of uploadAudio and its answer
Call(c, res) == [call |-> c, res |-> res]

\* the catch around tts and uploadAudio: the error is logged, nothing is sent
AudioFailed(slot) == Finish([slot EXCEPT !.tts = "failed"])

\* voice reply: the transcript and the translation are sent, then the try block
ReplyVoice(s) ==
  /\ h[s].pc = "reply"
  /\ h[s].num > 0
  /\ h' = [h EXCEPT ![s] = [Send(@, PipelineReplies(h[s], FALSE)) EXCEPT !.pc = "tts"]]
  /\ UNCHANGED <<users, log, sessions, subs, nextCust, stripeRes, received, voiceCache, preload>>

\* tts resolves with the audio: uploadAudio is entered
Tts(s) ==
  /\ h[s].pc = "tts"
  /\ h' = [h EXCEPT ![s].pc = "upload"]
  /\ UNCHANGED <<users, log, sessions, subs, nextCust, stripeRes, received, voiceCache, preload>>

\* tts throws
TtsFails(s) ==
  /\ h[s].pc = "tts"
  /\ h' = [h EXCEPT ![s] = AudioFailed(@)]
  /\ UNCHANGED <<users, log, sessions, subs, nextCust, stripeRes, received, voiceCache, preload>>

\* uploadAudio, first upload: a missing bucket leads to ensureBucket, another
\* error is thrown, otherwise the public URL is returned
Upload(s, res) ==
  /\ h[s].pc = "upload"
  /\ LET slot == [h[s] EXCEPT !.up = Append(@, Call("upload", res))]
     IN h' = [h EXCEPT ![s] = CASE res = "ok" -> [slot EXCEPT !.pc = "sendaudio"]
                                [] res = "notfound" -> [slot EXCEPT !.pc = "bucket"]
                                [] OTHER -> AudioFailed(slot)]
  /\ UNCHANGED <<users, log, sessions, subs, nextCust, stripeRes, received, voiceCache, preload>>

\* ensureBucket: an error other than the tolerated code is thrown
EnsureBucket(s, res) ==
  /\ h[s].pc = "bucket"
  /\ LET slot == [h[s] EXCEPT !.up = Append(@, Call("createBucket", res))]
     IN h' = [h EXCEPT ![s] = IF res \in {"ok", "PGRST116"}
                              THEN [slot EXCEPT !.pc = "retry"]
                              ELSE AudioFailed(slot)]
  /\ UNCHANGED <<users, log, sessions, subs, nextCust, stripeRes, received, voiceCache, preload>>

\* uploadAudio, second upload: any error is thrown
RetryUpload(s, res) ==
  /\ h[s].pc = "retry"
  /\ LET slot == [h[s] EXCEPT !.up = Append(@, Call("upload", res))]
     IN h' = [h EXCEPT ![s] = IF res = "ok" THEN [slot EXCEPT !.pc = "sendaudio"]
                              ELSE AudioFailed(slot)]
  /\ UNCHANGED <<users, log, sessions, subs, nextCust, stripeRes, received, voiceCache, preload>>

\* the audio message is sent with the public URL
SendAudio(s) ==
  /\ h[s].pc = "sendaudio"
  /\ h' = [h EXCEPT ![s] = Finish(Send([@ EXCEPT !.tts = "ok"],
                                       <<Msg("audio", h[s].dest)>>))]
  /\ UNCHANGED <<users, log, sessions, subs, nextCust, stripeRes, received, voiceCache, preload>>

\* ------------------------------------------------------------------ whisper, voice cache, pickVoice, tts

\* what a transcription request may do: answer with a transcript, or fail
AsrResults == {"ok", "error"}

\* faulty variant: the error of the primary model leaves whisper at once
whisper_NoFallback(slot, res, detected) ==
  LET model == IF slot.asr = << >> THEN "whisper-large-v3" ELSE "whisper-1"
      s1 == [slot EXCEPT !.asr = Append(@, [model |-> model, res |-> res,
                                             lang |-> IF res = "ok" THEN detected
                                                      ELSE Null])]
  IN IF res = "ok"
     THEN [s1 EXCEPT !.raw = FALSE, !.wav = FALSE, !.detected = detected,
                     !.dest = Dest(slot.user, detected), !.pc = "usage"]
     ELSE Finish([s1 EXCEPT !.raw = FALSE, !.wav = FALSE, !.threw = TRUE,
                            !.err = "whisper"])

\* whisper, one transcription request: the primary model in the try block,
\* the secondary model in the catch; the answer of a request is returned
\* (finally unlinks both files, dest follows), the error of the secondary
\* request leaves whisper
whisper(slot, res, detected) ==
  LET model == IF slot.asr = << >> THEN "whisper-large-v3" ELSE "whisper-1"
      s1 == [slot EXCEPT !.asr = Append(@, [model |-> model, res |-> res,
                                             lang |-> IF res = "ok" THEN detected
                                                      ELSE Null])]
  IN IF res = "ok"
     THEN [s1 EXCEPT !.raw = FALSE, !.wav = FALSE, !.detected = detected,
                     !.dest = Dest(slot.user, detected), !.pc = "usage"]
     ELSE IF slot.asr = << >>
     THEN s1
     ELSE Finish([s1 EXCEPT !.raw = FALSE, !.wav = FALSE, !.threw = TRUE,
                            !.err = "whisper"])

\* a transcription request of whisper is answered
Transcribe(s, res, detected) ==
  /\ h[s].pc = "whisper"
  /\ res = "ok" => Len(log) < MaxLog
  /\ h' = [h EXCEPT ![s] = whisper(@, res, detected)]
  /\ UNCHANGED <<users, log, sessions, subs, nextCust, stripeRes, received, voiceCache, preload>>

\* a voice of the catalog: the name in its parts, the gender, the language codes
Voice(name, gender) ==
  [name |-> name, ssmlGender |-> gender, languageCodes |-> <<SubSeq(name, 1, 2)>>]

\* the voices the catalog endpoint may list, in its order
AllVoices ==
  <<Voice(<<"en", "US", "Standard", "C">>, "FEMALE"),
    Voice(<<"en", "GB", "Neural2", "A">>, "FEMALE"),
    Voice(<<"es", "ES", "Neural2", "A">>, "FEMALE"),
    Voice(<<"es", "US", "Studio", "B">>, "MALE")>>

\* the answers of the catalog endpoint: the listed voices, some left out
Catalogs ==
  {[i \in 1..Cardinality(S) |->
      AllVoices[CHOOSE k \in S : Cardinality({j \in S : j < k}) = i - 1]] :
     S \in SUBSET (1..Len(AllVoices))}

\* the reduce of loadVoices: the voices by the first part of their language codes
ByLang(voices) ==
  LET codes == UNION {{voices[i].languageCodes[j][1] :
                         j \in 1..Len(voices[i].languageCodes)} : i \in 1..Len(voices)}
      Has(v, code) == \E j \in 1..Len(v.languageCodes) : v.languageCodes[j][1] = code
  IN [code \in codes |-> SelectSeq(voices, LAMBDA v : Has(v, code))]

\* list.find(v=>v.name.includes(tier)), Null when there is none
FindTier(list, tier) ==
  LET hits == {i \in 1..Len(list) : \E j \in 1..Len(list[i].name) : list[i].name[j] = tier}
  IN IF hits = {} THEN Null ELSE list[CHOOSE i \in hits : \A k \in hits : i <= k].name

\* the voice of the last resort
DefaultVoice == <<"en", "US", "Standard", "A">>

\* pickVoice once the cache is loaded: the voices of the gender, else all of
\* the language; for English the en-US ones if any; then the first Neural2,
\* WaveNet or Standard name, else the default name
pickVoice(cache, lang, gender) ==
  LET all    == IF lang \in DOMAIN cache THEN cache[lang] ELSE << >>
      gend   == SelectSeq(all, LAMBDA v : v.ssmlGender = gender)
      list1  == IF gend = << >> THEN all ELSE gend
      us     == SelectSeq(list1, LAMBDA v : SubSeq(v.name, 1, 2) = <<"en", "US">>)
      list   == IF lang = "en" /\ us # << >> THEN us ELSE list1
  IN IF FindTier(list, "Neural2") # Null THEN FindTier(list, "Neural2")
     ELSE IF FindTier(list, "WaveNet") # Null THEN FindTier(list, "WaveNet")
     ELSE IF FindTier(list, "Standard") # Null THEN FindTier(list, "Standard")
     ELSE DefaultVoice

\* the preload started at startup enters loadVoices: it returns at once when
\* the cache is set, else it requests the catalog
PreloadStart ==
  /\ preload = "start"
  /\ preload' = IF voiceCache.loaded THEN "done" ELSE "fetching"
  /\ UNCHANGED <<users, h, log, sessions, subs, nextCust, stripeRes, received, voiceCache>>

\* the catalog request of the preload is answered: the cache is assigned
PreloadAssign(voices) ==
  /\ preload = "fetching"
  /\ voiceCache' = [loaded |-> TRUE, voices |-> ByLang(voices)]
  /\ preload' = "done"
  /\ UNCHANGED <<users, h, log, sessions, subs, nextCust, stripeRes, received>>

\* the catalog request of the preload fails: the empty catch
PreloadFails ==
  /\ preload = "fetching"
  /\ preload' = "done"
  /\ UNCHANGED <<users, h, log, sessions, subs, nextCust, stripeRes, received, voiceCache>>

\* tts calls pickVoice, which enters loadVoices: with the cache set the voice
\* is picked, else the catalog is requested
LoadVoices(s) ==
  /\ h[s].pc = "tts"
  /\ h' = [h EXCEPT ![s] =
             IF voiceCache.loaded
             THEN [@ EXCEPT !.pc = "synth",
                            !.voice = pickVoice(voiceCache.voices, h[s].dest, h[s].user.voice_gender)]
             ELSE [@ EXCEPT !.pc = "voices"]]
  /\ UNCHANGED <<users, log, sessions, subs, nextCust, stripeRes, received, voiceCache, preload>>

\* the catalog request of a pickVoice call is answered: the cache is
\* assigned and the voice is picked from it
AssignVoices(s, voices) ==
  /\ h[s].pc = "voices"
  /\ voiceCache' = [loaded |-> TRUE, voices |-> ByLang(voices)]
  /\ h' = [h EXCEPT ![s] =
             [@ EXCEPT !.pc = "synth",
                       !.voice = pickVoice(ByLang(voices), h[s].dest, h[s].user.voice_gender)]]
  /\ UNCHANGED <<users, log, sessions, subs, nextCust, stripeRes, received, preload>>

\* the catalog request of a pickVoice call fails: tts rejects
VoicesFail(s) ==
  /\ h[s].pc = "voices"
  /\ h' = [h EXCEPT ![s] = AudioFailed(@)]
  /\ UNCHANGED <<users, log, sessions, subs, nextCust, stripeRes, received, voiceCache, preload>>

\* what a synthesis request may do: answer with audio, answer without
\* audio, or fail (the request or the parsing of its answer throws)
SynthResults == {"audio", "none", "error"}

\* the names tts passes to synth, in its order
TierName(slot, tier) ==
  CASE tier = 1 -> slot.voice
    [] tier = 2 -> <<slot.dest>>
    [] OTHER -> DefaultVoice

\* tts, one synth call: audio is returned; without audio the next name is
\* tried and after the third "TTS failed" is thrown; an error of synth
\* leaves tts at once
tts(slot, res) ==
  LET tier == Len(slot.syn) + 1
      s1 == [slot EXCEPT !.syn = Append(@, [name |-> TierName(slot, tier), res |-> res])]
  IN CASE res = "audio" -> [s1 EXCEPT !.pc = "upload"]
       [] res = "none" -> IF tier < 3 THEN s1 ELSE AudioFailed(s1)
       [] OTHER -> AudioFailed(s1)

\* a synthesis request of tts is answered
Synth(s, res) ==
  /\ h[s].pc = "synth"
  /\ h' = [h EXCEPT ![s] = tts(@, res)]
  /\ UNCHANGED <<users, log, sessions, subs, nextCust, stripeRes, received, voiceCache, preload>>

\* ------------------------------------------------------------------ handleIncoming, wizard-first build

\* pickLang of that build: the text is trimmed before both tests
pickLang001(txt) ==
  LET m  == trim(txt)
      lc == toLowerCase(m)
      hits == {d \in DOMAIN MENU :
                 CodeText(MENU[d].code) = lc \/ toLowerCase(MENU[d].name) = lc}
  IN IF Len(m) > 0 /\ IsDigit(m[1]) /\ m[1] \in DOMAIN MENU
     THEN MENU[m[1]]
     ELSE IF hits # {} THEN MENU[CHOOSE d \in hits : TRUE] ELSE NoLang

\* /^1$/ or /male/i gives MALE, then /^2$/ or /female/i gives FEMALE
pickGender001(text) ==
  LET m == text = Txt1 \/ Includes(toLowerCase(text), TxtMale)
      f == text = Txt2 \/ Includes(toLowerCase(text), TxtFemale)
  IN IF f THEN "FEMALE" ELSE IF m THEN "MALE" ELSE Null

\* t(key, lang): the dictionary of lang, English when there is none
t001(lang) == IF lang \in {"en","es","fr","pt","de"} THEN lang ELSE "en"

\* a user of that build who is asked for the receive language
ReceiveRow001(src) ==
  [exists |-> TRUE, language_step |-> "receive", source_lang |-> src,
   target_lang |-> Null, voice_gender |-> Null, ui_lang |-> src,
   plan |-> "FREE", free_used |-> 0, stripe_cust_id |-> Null, stripe_sub_id |-> Null]

\* a user of that build who is asked for the voice gender
GenderRow001(src, tgt) ==
  [exists |-> TRUE, language_step |-> "gender", source_lang |-> src,
   target_lang |-> tgt, voice_gender |-> Null, ui_lang |-> src,
   plan |-> "FREE", free_used |-> 0, stripe_cust_id |-> Null, stripe_sub_id |-> Null]

\* the row after the upsert of the create branch
UpsertRow001(row) ==
  [row EXCEPT !.exists = TRUE, !.language_step = "choose_ui", !.plan = "FREE",
              !.free_used = 0]

\* the row after the reset command's update
ResetRow001(row) ==
  [row EXCEPT !.language_step = "choose_ui", !.ui_lang = Null, !.source_lang = Null,
              !.target_lang = Null, !.voice_gender = Null]

\* whether the reply is a valid choice for the wizard step the handler read
WizardAccepts001(user, text) ==
  CASE user.language_step = "choose_ui" -> pickLang001(text) # NoLang
    [] user.language_step = "receive" ->
         pickLang001(text) # NoLang /\ pickLang001(text).code # user.source_lang
    [] user.language_step = "gender" -> pickGender001(text) # Null
    [] OTHER -> FALSE

\* the row after the update of the wizard step the handler read
WizardRow001(row, user, text) ==
  CASE user.language_step = "choose_ui" ->
         [row EXCEPT !.ui_lang = pickLang001(text).code,
                     !.source_lang = pickLang001(text).code,
                     !.language_step = "receive"]
    [] user.language_step = "receive" ->
         [row EXCEPT !.target_lang = pickLang001(text).code, !.language_step = "gender"]
    [] user.language_step = "gender" ->
         [row EXCEPT !.voice_gender = pickGender001(text), !.language_step = "ready"]

\* what the wizard step sends after its update
WizardReplies001(user, text) ==
  CASE user.language_step = "choose_ui" ->
         <<Msg("how", t001(pickLang001(text).code)),
           Msg("askReceive+menu", t001(pickLang001(text).code))>>
    [] user.language_step = "receive" -> <<Msg("askGender", t001(user.ui_lang))>>
    [] user.language_step = "gender" -> <<Msg("setupDone", t001(user.ui_lang))>>

\* what the wizard step sends for a reply it does not accept
WizardReprompt001(user) ==
  CASE user.language_step = "choose_ui" -> Msg("welcome", "en")
    [] user.language_step = "receive" -> Msg("askReceive+menu", t001(user.ui_lang))
    [] user.language_step = "gender" -> Msg("askGender", t001(user.ui_lang))

\* the branch that build takes once it holds the user row: the three wizard
\* steps first, then pay-wall quick replies, reset, pay-wall gate and guard
Route001(slot, user) ==
  LET r == [slot EXCEPT !.user = user] IN
  IF user.language_step \in {"choose_ui", "receive", "gender"}
  THEN IF WizardAccepts001(user, r.text)
       THEN [r EXCEPT !.route = "wizard", !.pc = "wizard"]
       ELSE Finish(Send([r EXCEPT !.route = "reprompt"], <<WizardReprompt001(user)>>))
  ELSE IF IsTierReply(user, r.text)
  THEN [r EXCEPT !.route = "billing", !.cust = user.stripe_cust_id,
                 !.pc = IF user.stripe_cust_id = Null THEN "customer" ELSE "session"]
  ELSE IF IsResetCmd(r.text)
  THEN [r EXCEPT !.route = "reset", !.pc = "reset"]
  ELSE IF OverQuota(user)
  THEN Finish(Send([r EXCEPT !.route = "paywall"], <<Msg("paywall", "en")>>))
  ELSE IF user.source_lang = Null \/ user.target_lang = Null \/ user.voice_gender = Null
  THEN Finish(Send([r EXCEPT !.route = "incomplete"], <<Msg("setupIncomplete", "en")>>))
  ELSE [r EXCEPT !.route = "pipeline", !.pc = "translate"]

\* POST /webhook of that build: the empty envelope, then handleIncoming alone
Webhook001(s, body, num) ==
  /\ h[s].pc \in {"idle", "done"}
  /\ h' = [h EXCEPT ![s] = [IdleSlot EXCEPT !.ack = 1, !.pc = "select",
                                            !.text = trim(body), !.num = num]]
  /\ UNCHANGED <<users, log, sessions, subs, nextCust, stripeRes, received, voiceCache, preload>>

\* fetch user; an existing row is routed at once
SelectUser001(s) ==
  /\ h[s].pc = "select"
  /\ h' = [h EXCEPT ![s] = IF users[Sender].exists
                           THEN Route001(@, users[Sender])
                           ELSE [@ EXCEPT !.pc = "upsert"]]
  /\ UNCHANGED <<users, log, sessions, subs, nextCust, stripeRes, received, voiceCache, preload>>

\* create user: upsert, read back, route
UpsertUser001(s) ==
  /\ h[s].pc = "upsert"
  /\ users' = [users EXCEPT ![Sender] = UpsertRow001(@)]
  /\ h' = [h EXCEPT ![s] = Route001(@, UpsertRow001(users[Sender]))]
  /\ UNCHANGED <<log, sessions, subs, nextCust, stripeRes, received, voiceCache, preload>>

\* reset cmd: update, then the welcome menu
ResetCmd001(s) ==
  /\ h[s].pc = "reset"
  /\ users' = [users EXCEPT ![Sender] = ResetRow001(@)]
  /\ h' = [h EXCEPT ![s] = Finish(Send(@, <<Msg("welcome", "en")>>))]
  /\ UNCHANGED <<log, sessions, subs, nextCust, stripeRes, received, voiceCache, preload>>

\* an accepted wizard reply: update, then the step's messages
WizardStep001(s) ==
  /\ h[s].pc = "wizard"
  /\ users' = [users EXCEPT ![Sender] = WizardRow001(@, h[s].user, h[s].text)]
  /\ h' = [h EXCEPT ![s] = Finish(Send(@, WizardReplies001(h[s].user, h[s].text)))]
  /\ UNCHANGED <<log, sessions, subs, nextCust, stripeRes, received, voiceCache, preload>>

\* ------------------------------------------------------------------ handleIncoming, welcome-step build

\* pickLang of that build: the text is trimmed, a leading digit of the menu
\* wins, else a code or a name in any case
pickLang003(txt) ==
  LET m  == trim(txt)
      lc == toLowerCase(m)
      hits == {d \in DOMAIN MENU :
                 CodeText(MENU[d].code) = lc \/ toLowerCase(MENU[d].name) = lc}
  IN IF Len(m) > 0 /\ IsDigit(m[1]) /\ m[1] \in DOMAIN MENU
     THEN MENU[m[1]]
     ELSE IF hits # {} THEN MENU[CHOOSE d \in hits : TRUE] ELSE NoLang

\* /^1$/ or /male/i gives MALE, then /^2$/ or /female/i gives FEMALE
pickGender003(text) ==
  LET m == text = Txt1 \/ Includes(toLowerCase(text), TxtMale)
      f == text = Txt2 \/ Includes(toLowerCase(text), TxtFemale)
  IN IF f THEN "FEMALE" ELSE IF m THEN "MALE" ELSE Null

\* the row after the upsert of the create branch: the wizard starts at "welcome"
UpsertRow003(row) ==
  [row EXCEPT !.exists = TRUE, !.language_step = "welcome", !.plan = "FREE",
              !.free_used = 0]

\* the row after the reset command's update
ResetRow003(row) ==
  [row EXCEPT !.language_step = "welcome", !.source_lang = Null,
              !.target_lang = Null, !.voice_gender = Null]

\* whether the reply is a valid choice for the wizard step the handler read:
\* any language of the menu at both language steps
WizardAccepts003(user, text) ==
  CASE user.language_step = "welcome" -> pickLang003(text) # NoLang
    [] user.language_step = "source" -> pickLang003(text) # NoLang
    [] user.language_step = "gender" -> pickGender003(text) # Null
    [] OTHER -> FALSE

\* the row after the update of the wizard step the handler read: the first
\* choice is stored as target_lang, the second as source_lang
WizardRow003(row, user, text) ==
  CASE user.language_step = "welcome" ->
         [row EXCEPT !.target_lang = pickLang003(text).code, !.language_step = "source"]
    [] user.language_step = "source" ->
         [row EXCEPT !.source_lang = pickLang003(text).code, !.language_step = "gender"]
    [] user.language_step = "gender" ->
         [row EXCEPT !.voice_gender = pickGender003(text), !.language_step = "ready"]

\* what the wizard step sends after its update
WizardReplies003(user, text) ==
  CASE user.language_step = "welcome" ->
         <<Msg("how", pickLang003(text).code), Msg("askReceive+menu", "en")>>
    [] user.language_step = "source" -> <<Msg("askGender", "en")>>
    [] user.language_step = "gender" -> <<Msg("setupDone", "en")>>

\* what the wizard step sends for a reply it does not accept
WizardReprompt003(user) ==
  CASE user.language_step = "welcome" -> Msg("welcome", "en")
    [] user.language_step = "source" -> Msg("badChoice+menu", "en")
    [] user.language_step = "gender" -> Msg("askGender", "en")

\* the branch that build takes once it holds the user row: the welcome step,
\* then pay-wall replies, reset, pay-wall gate, the source and gender steps
\* and the guard
Route003(slot, user) ==
  LET r == [slot EXCEPT !.user = user]
      wizard == IF WizardAccepts003(user, r.text)
                THEN [r EXCEPT !.route = "wizard", !.pc = "wizard"]
                ELSE Finish(Send([r EXCEPT !.route = "reprompt"],
                                 <<WizardReprompt003(user)>>))
  IN
  IF user.language_step = "welcome"
  THEN wizard
  ELSE IF IsTierReply(user, r.text)
  THEN [r EXCEPT !.route = "billing", !.cust = user.stripe_cust_id,
                 !.pc = IF user.stripe_cust_id = Null THEN "customer" ELSE "session"]
  ELSE IF IsResetCmd(r.text)
  THEN [r EXCEPT !.route = "reset", !.pc = "reset"]
  ELSE IF OverQuota(user)
  THEN Finish(Send([r EXCEPT !.route = "paywall"], <<Msg("paywall", "en")>>))
  ELSE IF user.language_step \in {"source", "gender"}
  THEN wizard
  ELSE IF user.source_lang = Null \/ user.target_lang = Null \/ user.voice_gender = Null
  THEN Finish(Send([r EXCEPT !.route = "incomplete"], <<Msg("setupIncomplete", "en")>>))
  ELSE [r EXCEPT !.route = "pipeline", !.pc = "translate"]

\* POST /webhook of that build: the empty envelope, then handleIncoming alone
Webhook003(s, body, num) ==
  /\ h[s].pc \in {"idle", "done"}
  /\ h' = [h EXCEPT ![s] = [IdleSlot EXCEPT !.ack = 1, !.pc = "select",
                                            !.text = trim(body), !.num = num]]
  /\ UNCHANGED <<users, log, sessions, subs, nextCust, stripeRes, received, voiceCache, preload>>

\* fetch user; an existing row is routed at once
SelectUser003(s) ==
  /\ h[s].pc = "select"
  /\ h' = [h EXCEPT ![s] = IF users[Sender].exists
                           THEN Route003(@, users[Sender])
                           ELSE [@ EXCEPT !.pc = "upsert"]]
  /\ UNCHANGED <<users, log, sessions, subs, nextCust, stripeRes, received, voiceCache, preload>>

\* create user: upsert, read back, route
UpsertUser003(s) ==
  /\ h[s].pc = "upsert"
  /\ users' = [users EXCEPT ![Sender] = UpsertRow003(@)]
  /\ h' = [h EXCEPT ![s] = Route003(@, UpsertRow003(users[Sender]))]
  /\ UNCHANGED <<log, sessions, subs, nextCust, stripeRes, received, voiceCache, preload>>

\* reset: update, then the menu under the reset notice
ResetCmd003(s) ==
  /\ h[s].pc = "reset"
  /\ users' = [users EXCEPT ![Sender] = ResetRow003(@)]
  /\ h' = [h EXCEPT ![s] = Finish(Send(@, <<Msg("reset+welcome", "en")>>))]
  /\ UNCHANGED <<log, sessions, subs, nextCust, stripeRes, received, voiceCache, preload>>

\* an accepted wizard reply: update, then the step's messages
WizardStep003(s) ==
  /\ h[s].pc = "wizard"
  /\ users' = [users EXCEPT ![Sender] = WizardRow003(@, h[s].user, h[s].text)]
  /\ h' = [h EXCEPT ![s] = Finish(Send(@, WizardReplies003(h[s].user, h[s].text)))]
  /\ UNCHANGED <<log, sessions, subs, nextCust, stripeRes, received, voiceCache, preload>>

\* ------------------------------------------------------------------ handleIncoming, PDF build

\* the free translations of that build
QuotaPdf == 10

\* the largest PDF the branch takes, in bytes
MaxPdfBytes == 16000000

\* the credits of a PDF
PdfCredits == 3

\* num > 0 && mediaType && mediaType.includes("pdf")
isPdf(slot) == slot.num > 0 /\ slot.mediaType = "application/pdf"

\* paywallMsg[(user.target_lang || "en").toLowerCase()] || paywallMsg.en
PaywallLangPdf(user) ==
  IF user.target_lang \in {"en", "es", "fr", "pt", "de"} THEN user.target_lang ELSE "en"

\* the branch that build takes once it holds the user row: pay-wall replies,
\* reset, free-tier gate, the wizard steps, the guard, the PDF branch with its
\* size test, and the translation phase
RoutePdf(slot, user) ==
  LET r == [slot EXCEPT !.user = user]
      lower == toLowerCase(trim(r.text))
  IN
  IF IsTierDigit(lower) /\ isFree(user) /\ user.free_used >= QuotaPdf
  THEN [r EXCEPT !.route = "billing", !.cust = user.stripe_cust_id,
                 !.pc = IF user.stripe_cust_id = Null THEN "customer" ELSE "session"]
  ELSE IF IsResetCmd(lower)
  THEN [r EXCEPT !.route = "reset", !.pc = "reset"]
  ELSE IF isFree(user) /\ user.free_used >= QuotaPdf
  THEN Finish(Send([r EXCEPT !.route = "paywall"], <<Msg("paywall", PaywallLangPdf(user))>>))
  ELSE IF user.language_step \in {"target", "source", "gender"}
  THEN [r EXCEPT !.route = "wizard", !.pc = "wizard"]
  ELSE IF user.source_lang = Null \/ user.target_lang = Null \/ user.voice_gender = Null
  THEN Finish(Send([r EXCEPT !.route = "incomplete"], <<Msg("setupIncomplete", "en")>>))
  ELSE IF isPdf(r)
  THEN IF r.mediaSize > MaxPdfBytes
       THEN Finish(Send([r EXCEPT !.route = "pdf", !.err = "size"], <<Msg("pdfTooBig", "en")>>))
       ELSE [r EXCEPT !.route = "pdf", !.pc = "pdf.fetch"]
  ELSE [r EXCEPT !.route = "pipeline", !.pc = "translate"]

\* POST /webhook of that build: the empty envelope, then handleIncoming with
\* the media type and the media size of the request
WebhookPdf(s, body, num, type, size) ==
  /\ h[s].pc \in {"idle", "done"}
  /\ h' = [h EXCEPT ![s] = [IdleSlot EXCEPT !.ack = 1, !.pc = "select",
                                            !.text = trim(body), !.num = num,
                                            !.mediaType = type, !.mediaSize = size]]
  /\ UNCHANGED <<users, log, sessions, subs, nextCust, stripeRes, received, voiceCache, preload>>

\* fetch user; an existing row is routed at once
SelectUserPdf(s) ==
  /\ h[s].pc = "select"
  /\ h' = [h EXCEPT ![s] = IF users[Sender].exists
                           THEN RoutePdf(@, users[Sender])
                           ELSE [@ EXCEPT !.pc = "upsert"]]
  /\ UNCHANGED <<users, log, sessions, subs, nextCust, stripeRes, received, voiceCache, preload>>

\* the PDF is fetched from the media URL; a failure is not caught
FetchPdf(s, ok) ==
  /\ h[s].pc = "pdf.fetch"
  /\ h' = [h EXCEPT ![s] = IF ok THEN [@ EXCEPT !.pc = "pdf.extract"]
                           ELSE Finish([@ EXCEPT !.threw = TRUE, !.err = "fetch"])]
  /\ UNCHANGED <<users, log, sessions, subs, nextCust, stripeRes, received, voiceCache, preload>>

\* extractPdfText: text, a text of less than 10 characters, or an error
ExtractResults == {"text", "short", "error"}

ExtractPdf(s, res) ==
  /\ h[s].pc = "pdf.extract"
  /\ h' = [h EXCEPT ![s] =
             CASE res = "text" -> [@ EXCEPT !.pc = "pdf.translate"]
               [] res = "short" ->
                    Finish(Send([@ EXCEPT !.err = "empty"], <<Msg("pdfNoText", "en")>>))
               [] res = "error" ->
                    Finish(Send([@ EXCEPT !.err = "extract"], <<Msg("pdfCantRead", "en")>>))]
  /\ UNCHANGED <<users, log, sessions, subs, nextCust, stripeRes, received, voiceCache, preload>>

\* the chunks are translated to target_lang one after the other; a failure
\* of one of the calls is not caught
TranslatePdf(s, ok) ==
  /\ h[s].pc = "pdf.translate"
  /\ Len(log) < MaxLog
  /\ h' = [h EXCEPT ![s] = IF ok THEN [@ EXCEPT !.dest = h[s].user.target_lang,
                                                !.pc = "pdf.build"]
                           ELSE Finish([@ EXCEPT !.threw = TRUE, !.err = "translate"])]
  /\ UNCHANGED <<users, log, sessions, subs, nextCust, stripeRes, received, voiceCache, preload>>

\* buildPdf inside its try
BuildPdf(s, ok) ==
  /\ h[s].pc = "pdf.build"
  /\ h' = [h EXCEPT ![s] =
             IF ok THEN [@ EXCEPT !.pc = "pdf.upload"]
             ELSE Finish(Send([@ EXCEPT !.err = "build"], <<Msg("pdfCantBuild", "en")>>))]
  /\ UNCHANGED <<users, log, sessions, subs, nextCust, stripeRes, received, voiceCache, preload>>

\* uploadPdf inside its try: the upload, and the bucket creation and second
\* upload when the bucket is missing, end with the public URL or an error
UploadPdf(s, ok) ==
  /\ h[s].pc = "pdf.upload"
  /\ h' = [h EXCEPT ![s] =
             IF ok THEN [@ EXCEPT !.pc = "pdf.notice"]
             ELSE Finish(Send([@ EXCEPT !.err = "upload"], <<Msg("pdfCantUpload", "en")>>))]
  /\ UNCHANGED <<users, log, sessions, subs, nextCust, stripeRes, received, voiceCache, preload>>

\* the notice is sent; a failure of sendMessage is not caught
SendNotice(s, ok) ==
  /\ h[s].pc = "pdf.notice"
  /\ h' = [h EXCEPT ![s] = IF ok THEN [Send(@, <<Msg("pdfDone", "en")>>) EXCEPT !.pc = "pdf.link"]
                           ELSE Finish([@ EXCEPT !.threw = TRUE, !.err = "send"])]
  /\ UNCHANGED <<users, log, sessions, subs, nextCust, stripeRes, received, voiceCache, preload>>

\* the file link is sent as a media message
SendLink(s, ok) ==
  /\ h[s].pc = "pdf.link"
  /\ h' = [h EXCEPT ![s] = IF ok THEN [Send(@, <<Msg("pdfLink", h[s].dest)>>) EXCEPT !.pc = "pdf.usage"]
                           ELSE Finish([@ EXCEPT !.threw = TRUE, !.err = "send"])]
  /\ UNCHANGED <<users, log, sessions, subs, nextCust, stripeRes, received, voiceCache, preload>>

\* faulty variant: a PDF is counted as one credit
CreditsRow_OneCredit(row, user, add) ==
  IF isFree(user) THEN [row EXCEPT !.free_used = user.free_used + 1] ELSE row

\* free_used: (user.free_used || 0) + add, written for a free user only
CreditsRow(row, user, add) ==
  IF isFree(user) THEN [row EXCEPT !.free_used = user.free_used + add] ELSE row

\* the translation log entry of that build
LogEntryPdf(from, to, add, type) ==
  [phone_number |-> Sender, language_from |-> from, language_to |-> to,
   credits_used |-> add, file_type |-> type]

\* usage and log of the PDF branch, then return
UsagePdf(s) ==
  /\ h[s].pc = "pdf.usage"
  /\ users' = [users EXCEPT ![Sender] = CreditsRow(@, h[s].user, PdfCredits)]
  /\ log' = Append(log, LogEntryPdf(h[s].user.source_lang, h[s].user.target_lang,
                                    PdfCredits, "PDF"))
  /\ h' = [h EXCEPT ![s] = Finish(@)]
  /\ UNCHANGED <<sessions, subs, nextCust, stripeRes, received, voiceCache, preload>>

\* usage and log of the translation phase: one credit
UsageCredit(s) ==
  /\ h[s].pc = "usage"
  /\ users' = [users EXCEPT ![Sender] = CreditsRow(@, h[s].user, 1)]
  /\ log' = Append(log, LogEntryPdf(h[s].detected, h[s].dest, 1,
                                    IF h[s].num > 0 THEN "AUDIO" ELSE "TEXT"))
  /\ h' = [h EXCEPT ![s].pc = "reply"]
  /\ UNCHANGED <<sessions, subs, nextCust, stripeRes, received, voiceCache, preload>>

\* ------------------------------------------------------------------ specifications

Handler(s) ==
  \/ FirstContact(s)
  \/ SelectUser(s)
  \/ UpsertUser(s)
  \/ ResetCmd(s)
  \/ WizardStep(s)
  \/ TranslateFails(s)
  \/ TranslateNothing(s)
  \/ \E d \in DetectLangs : Translate(s, d)
  \/ Usage(s)
  \/ \E audio \in BOOLEAN : Reply(s, audio)
  \/ EnsureCustomer(s)
  \/ CreateSession(s)
  \/ CheckoutFails(s)

Billing ==
  \/ \E sess \in sessions : CheckoutCompleted(sess)
  \/ \E sub \in subs : SubscriptionDeleted(sub)

\* Requests of the sender are handled one at a time; the payment provider
\* delivers no event.  Bodies and media counts of the inbound webhook:
InboundSeq ==
  {<<b, 0>> : b \in {Txt1, Txt2, Txt3, TxtES, TxtReset, TxtChangeLanguageCaps, TxtHola}}
    \cup {<<TxtEmpty, 1>>}

InitSeq == InitWith({NoRow, ReadyRow("en", "es", 3), LifetimeRow}, {})

NextSeq ==
  \/ \E m \in InboundSeq : Quiet /\ Webhook("a", m[1], m[2]) /\ UNCHANGED received
  \/ Handler("a")

SpecSeq == InitSeq /\ [][NextSeq]_vars

\* Requests of the sender are handled concurrently, and the payment provider
\* delivers its events at any time.
Inbound == {<<b, 0>> : b \in {Txt1, Txt2, TxtReset}} \cup {<<TxtEmpty, 1>>}

Init == InitWith({NoRow, TargetRow("es"), ReadyRow("en", "es", 3)}, {})

Next ==
  \/ \E s \in Slots, m \in Inbound :
       received < MaxMsgs /\ Webhook(s, m[1], m[2]) /\ received' = received + 1
  \/ \E s \in Slots : Handler(s)
  \/ Billing

Spec == Init /\ [][Next]_vars

\* The payment path: a sender at the quota picks tiers, the provider
\* delivers signed events, and requests with a bad signature arrive.
InboundStripe == {<<b, 0>> : b \in {Txt1, Txt3}}

InitStripe == InitWith({ReadyRow("en", "es", Quota)}, {PaidRow.stripe_sub_id})

NextStripe ==
  \/ \E m \in InboundStripe :
       Quiet /\ received < MaxMsgs /\ Webhook("a", m[1], m[2]) /\ received' = received + 1
  \/ FirstContact("a")
  \/ SelectUser("a")
  \/ EnsureCustomer("a")
  \/ CreateSession("a")
  \/ CheckoutFails("a")
  \/ TranslateFails("a")
  \/ \E d \in DetectLangs : Translate("a", d)
  \/ Usage("a")
  \/ Reply("a", FALSE)
  \/ Billing
  \/ \E req \in ForgedRequests : ForgedWebhook(req)

SpecStripe == InitStripe /\ [][NextStripe]_vars

\* Tier picks of a sender at the quota, handled concurrently, with the
\* provider delivering its events at any time.
InboundPay == {<<b, 0>> : b \in {Txt1, Txt2, Txt3}}

InitPay == InitWith({ReadyRow("en", "es", Quota)}, {PaidRow.stripe_sub_id})

NextPay ==
  \/ \E s \in Slots, m \in InboundPay :
       received < MaxMsgs /\ Webhook(s, m[1], m[2]) /\ received' = received + 1
  \/ \E s \in Slots : FirstContact(s)
  \/ \E s \in Slots : SelectUser(s)
  \/ \E s \in Slots : EnsureCustomer(s)
  \/ \E s \in Slots : CreateSession(s)
  \/ \E s \in Slots : CheckoutFails(s)
  \/ \E s \in Slots : TranslateFails(s)
  \/ Billing

SpecPay == InitPay /\ [][NextPay]_vars

\* Requests handled one at a time, with the external calls of handleIncoming
\* failing at any point and the media branch followed file by file.
InboundFault == {<<Txt1, 0>>, <<TxtHola, 0>>, <<TxtEmpty, 1>>}

InitFault == InitWith({NoRow, ReadyRow("en", "es", 3), LifetimeRow}, {})

NextFault ==
  \/ \E m \in InboundFault : Quiet /\ Webhook("a", m[1], m[2]) /\ UNCHANGED received
  \/ Quiet /\ WebhookNoFrom("a")
  \/ FirstContact("a")
  \/ SelectUser("a")
  \/ SelectFails("a")
  \/ UpsertUser("a")
  \/ UpsertFails("a")
  \/ WizardStep("a")
  \/ FetchMedia("a")
  \/ FetchFails("a")
  \/ ToWav("a")
  \/ \E partial \in BOOLEAN : ToWavFails("a", partial)
  \/ \E d \in DetectLangs : Whisper("a", d)
  \/ WhisperFails("a")
  \/ DetectFails("a")
  \/ \E d \in DetectLangs : h["a"].num = 0 /\ Translate("a", d)
  \/ h["a"].num = 0 /\ TranslateFails("a")
  \/ Usage("a")
  \/ \E audio \in BOOLEAN : Reply("a", audio)

SpecFault == InitFault /\ [][NextFault]_vars

\* Requests handled one at a time and kept on record in turn: the request
\* before the current one is the one of the other slot.
InboundAlt == {<<b, 0>> : b \in {TxtReset, TxtChangeLanguageCaps, Txt3}} \cup {<<TxtEmpty, 1>>}

InitAlt == InitWith({NoRow, TargetRow("es"), ReadyRow("es", "en", 4), LifetimeRow}, {})

Turn == IF received % 2 = 0 THEN "a" ELSE "b"

NextAlt ==
  \/ \E m \in InboundAlt :
       Quiet /\ received < MaxMsgs /\ Webhook(Turn, m[1], m[2]) /\ received' = received + 1
  \/ \E s \in Slots : Handler(s)

SpecAlt == InitAlt /\ [][NextAlt]_vars

\* The language menu: every digit at the two language steps, one request at
\* a time.
InboundMenu == {<<b, 0>> : b \in {Txt1, Txt2, Txt3, Txt4, Txt5}}

InitMenu ==
  InitWith({NoRow} \cup {TargetRow(c) : c \in {"en", "es", "fr", "pt", "de"}}, {})

NextMenu ==
  \/ \E m \in InboundMenu : Quiet /\ Webhook("a", m[1], m[2]) /\ UNCHANGED received
  \/ FirstContact("a")
  \/ SelectUser("a")
  \/ UpsertUser("a")
  \/ WizardStep("a")
  \/ TranslateFails("a")

SpecMenu == InitMenu /\ [][NextMenu]_vars

\* The wizard-first build, requests of the sender handled one at a time; the
\* translation phase and the payment helpers are those of the main build.
Inbound001 ==
  {<<b, 0>> : b \in {Txt1, Txt2, TxtES, TxtReset, TxtChangeLanguageCaps, TxtHola}}

Init001 ==
  InitWith({NoRow, ReceiveRow001("es"), GenderRow001("es", "en"), ReadyRow("en", "es", 4)}, {})

Next001 ==
  \/ \E m \in Inbound001 : Webhook001("a", m[1], m[2])
  \/ SelectUser001("a")
  \/ UpsertUser001("a")
  \/ ResetCmd001("a")
  \/ WizardStep001("a")
  \/ TranslateFails("a")
  \/ \E d \in DetectLangs : Translate("a", d)
  \/ Usage("a")
  \/ Reply("a", FALSE)
  \/ EnsureCustomer("a")
  \/ CreateSession("a")
  \/ CheckoutFails("a")

Spec001 == Init001 /\ [][Next001]_vars

\* A free sender with one free translation left: requests are handled
\* concurrently and the payment provider delivers its events at any time.
StartUsed == Quota - 1

InboundQuota == {<<TxtHola, 0>>, <<Txt1, 0>>}

InitQuota == InitWith({ReadyRow("en", "es", StartUsed)}, {})

NextQuota ==
  \/ \E s \in Slots, m \in InboundQuota :
       received < MaxMsgs /\ Webhook(s, m[1], m[2]) /\ received' = received + 1
  \/ \E s \in Slots :
       \/ FirstContact(s)
       \/ SelectUser(s)
       \/ TranslateFails(s)
       \/ \E d \in DetectLangs : Translate(s, d)
       \/ Usage(s)
       \/ Reply(s, FALSE)
       \/ EnsureCustomer(s)
       \/ CreateSession(s)
       \/ CheckoutFails(s)
  \/ Billing

SpecQuota == InitQuota /\ [][NextQuota]_vars

\* Voice notes of a ready sender, one at a time, with the voice reply taken
\* call by call through tts and uploadAudio.
InitUpload == InitWith({ReadyRow("en", "es", 3), LifetimeRow}, {})

NextUpload ==
  \/ Quiet /\ Webhook("a", TxtEmpty, 1) /\ UNCHANGED received
  \/ FirstContact("a")
  \/ SelectUser("a")
  \/ FetchMedia("a")
  \/ ToWav("a")
  \/ \E d \in DetectLangs : Whisper("a", d)
  \/ Usage("a")
  \/ ReplyVoice("a")
  \/ Tts("a")
  \/ TtsFails("a")
  \/ \E res \in UploadResults : Upload("a", res)
  \/ \E res \in BucketResults : EnsureBucket("a", res)
  \/ \E res \in UploadResults : RetryUpload("a", res)
  \/ SendAudio("a")

SpecUpload == InitUpload /\ [][NextUpload]_vars

\* Voice notes of a ready sender, one at a time, with whisper taken request
\* by request.
NextWhisper ==
  \/ Quiet /\ Webhook("a", TxtEmpty, 1) /\ UNCHANGED received
  \/ FirstContact("a")
  \/ SelectUser("a")
  \/ FetchMedia("a")
  \/ ToWav("a")
  \/ \E res \in AsrResults, d \in DetectLangs : Transcribe("a", res, d)
  \/ Usage("a")
  \/ \E audio \in BOOLEAN : Reply("a", audio)

SpecWhisper == InitUpload /\ [][NextWhisper]_vars

\* Voice notes of a ready sender, one at a time, with the voice cache, tts
\* and uploadAudio taken request by request; the catalog preload of the
\* startup runs beside the handler.
NextVoice ==
  \/ Quiet /\ Webhook("a", TxtEmpty, 1) /\ UNCHANGED received
  \/ FirstContact("a")
  \/ SelectUser("a")
  \/ FetchMedia("a")
  \/ ToWav("a")
  \/ \E d \in DetectLangs : Whisper("a", d)
  \/ Usage("a")
  \/ ReplyVoice("a")
  \/ PreloadStart
  \/ \E voices \in Catalogs : PreloadAssign(voices)
  \/ PreloadFails
  \/ LoadVoices("a")
  \/ \E voices \in Catalogs : AssignVoices("a", voices)
  \/ VoicesFail("a")
  \/ \E res \in SynthResults : Synth("a", res)
  \/ \E res \in UploadResults : Upload("a", res)
  \/ \E res \in BucketResults : EnsureBucket("a", res)
  \/ \E res \in UploadResults : RetryUpload("a", res)
  \/ SendAudio("a")

SpecVoice == InitUpload /\ [][NextVoice]_vars

\* The wizard with replies that are a digit, a digit followed by another
\* character, a language code and a word that is no language.
InboundPick == {<<b, 0>> : b \in {Txt1, Txt12, TxtES, TxtHola}}

NextPick ==
  \/ \E m \in InboundPick : Quiet /\ Webhook("a", m[1], m[2]) /\ UNCHANGED received
  \/ FirstContact("a")
  \/ SelectUser("a")
  \/ UpsertUser("a")
  \/ WizardStep("a")
  \/ TranslateFails("a")

SpecPick == InitMenu /\ [][NextPick]_vars

\* The welcome-step build, requests of the sender handled one at a time; the
\* translation phase and the payment helpers are those of the main build.
Inbound003 == {<<b, 0>> : b \in {Txt1, Txt2, TxtES, TxtReset, TxtHola}}

Init003 == InitWith({NoRow, ReadyRow("en", "es", 4)}, {})

Next003 ==
  \/ \E m \in Inbound003 : Webhook003("a", m[1], m[2])
  \/ SelectUser003("a")
  \/ UpsertUser003("a")
  \/ ResetCmd003("a")
  \/ WizardStep003("a")
  \/ TranslateFails("a")
  \/ \E d \in DetectLangs : Translate("a", d)
  \/ Usage("a")
  \/ Reply("a", FALSE)
  \/ EnsureCustomer("a")
  \/ CreateSession("a")
  \/ CheckoutFails("a")

Spec003 == Init003 /\ [][Next003]_vars

\* The PDF build with ready senders, requests handled one at a time: PDFs at
\* and above the size limit, and text messages.
PdfSizes == {MaxPdfBytes, MaxPdfBytes + 1}

StartUsedPdf == QuotaPdf - PdfCredits

InitPdf == InitWith({ReadyRow("en", "es", StartUsedPdf), LifetimeRow}, {})

NextPdf ==
  \/ \E size \in PdfSizes : WebhookPdf("a", TxtEmpty, 1, "application/pdf", size)
  \/ WebhookPdf("a", TxtHola, 0, Null, 0)
  \/ SelectUserPdf("a")
  \/ \E ok \in BOOLEAN : FetchPdf("a", ok)
  \/ \E res \in ExtractResults : ExtractPdf("a", res)
  \/ \E ok \in BOOLEAN : TranslatePdf("a", ok)
  \/ \E ok \in BOOLEAN : BuildPdf("a", ok)
  \/ \E ok \in BOOLEAN : UploadPdf("a", ok)
  \/ \E ok \in BOOLEAN : SendNotice("a", ok)
  \/ \E ok \in BOOLEAN : SendLink("a", ok)
  \/ UsagePdf("a")
  \/ TranslateFails("a")
  \/ \E d \in DetectLangs : Translate("a", d)
  \/ UsageCredit("a")
  \/ Reply("a", FALSE)

SpecPdf == InitPdf /\ [][NextPdf]_vars

\* ------------------------------------------------------------------ properties

WizardFields(row) ==
  <<row.language_step, row.source_lang, row.target_lang, row.voice_gender, row.ui_lang>>

Welcome == [k |-> "welcome", l |-> "en"]

\* handleIncoming of slot s obtains the user row in this step (the select
\* found it, or the upsert created it) and takes its branch
Routed(s) == h[s].pc \in {"select", "upsert"} /\ h'[s].pc \notin {"select", "upsert"}

\* C1: one message at a time, free-plan ready user: the usage update of a
\* translation that started from free_used = 4 stores 5; a message that is
\* exactly 1, 2 or 3 and finds the row at free_used = 5 takes the billing
\* branch, which ends with exactly one message, the checkout link or the
\* payment error, and writes neither the wizard fields, free_used nor the log.
C1_QuotaBoundary ==
  [][\A s \in Slots :
       /\ (/\ h[s].pc = "usage" /\ h'[s].pc = "reply"
           /\ h[s].user.plan = "FREE" /\ h[s].user.free_used = 4)
          => users'[Sender].free_used = 5
       /\ (/\ Routed(s)
           /\ users'[Sender].plan = "FREE" /\ users'[Sender].free_used = 5
           /\ users'[Sender].language_step = "ready"
           /\ h[s].text \in {<<"1">>, <<"2">>, <<"3">>})
          => h'[s].route = "billing" /\ h'[s].pc \in {"customer", "session"}
       /\ (h[s].route = "billing" /\ h[s].pc \in {"customer", "session"})
          => /\ WizardFields(users'[Sender]) = WizardFields(users[Sender])
             /\ users'[Sender].free_used = users[Sender].free_used
             /\ log' = log
             /\ h'[s].pc \in {"customer", "session", "done"}
             /\ h'[s].pc = "done" =>
                  h'[s].out \in {<<[k |-> "payLink", l |-> "en"]>>,
                                 <<[k |-> "payError", l |-> "en"]>>}
  ]_vars

\* C1 witness: after a translation brought free_used to 5, a digit was
\* answered with the checkout link
C1_Witness ==
  /\ h["a"].pc = "done" /\ h["a"].route = "billing"
  /\ h["a"].out = <<[k |-> "payLink", l |-> "en"]>>
  /\ users[Sender].free_used = 5 /\ users[Sender].plan = "FREE"
  /\ Len(log) = 2 /\ users[Sender].language_step = "ready"

ResetTexts == {TxtReset, TxtResetCaps, TxtChangeLanguage, TxtChangeLanguageCaps}

\* C2: whatever the row holds, a message that is "reset" or "change language"
\* in any letter case takes the reset branch, whose update sets language_step
\* to ui and source_lang, target_lang, voice_gender, ui_lang to null, and the
\* request sends exactly one message, the welcome menu in English.
C2_Reset ==
  [][\A s \in Slots :
       /\ (Routed(s) /\ h[s].text \in ResetTexts)
          => h'[s].pc = "reset" /\ h'[s].route = "reset"
       /\ (h[s].pc = "reset" /\ h'[s].pc # "reset")
          => /\ WizardFields(users'[Sender]) = <<"ui", Null, Null, Null, Null>>
             /\ h'[s].pc = "done"
             /\ h'[s].out = Append(h[s].out, Welcome)
             /\ h[s].fc # "welcomed" => h'[s].out = <<Welcome>>
  ]_vars

\* C2 witness: a free user at the quota has been reset and got the one menu
C2_Witness ==
  /\ h["a"].pc = "done" /\ h["a"].route = "reset" /\ h["a"].fc = "known"
  /\ h["a"].out = <<Welcome>>
  /\ WizardFields(users[Sender]) = <<"ui", Null, Null, Null, Null>>
  /\ users[Sender].free_used >= Quota

\* C3: whenever source_lang and target_lang of the sender's row are both set
\* they differ, also when requests of the sender are handled concurrently.
C3_SourceTargetDiffer ==
  (users[Sender].source_lang # Null /\ users[Sender].target_lang # Null)
    => users[Sender].source_lang # users[Sender].target_lang

\* no required field is skipped
NoSkip(row) ==
  /\ row.language_step = "target" => row.source_lang # Null
  /\ row.language_step = "gender" => row.source_lang # Null /\ row.target_lang # Null
  /\ row.language_step = "ready" =>
       row.source_lang # Null /\ row.target_lang # Null /\ row.voice_gender # Null

C5_ReadyIffComplete ==
  users[Sender].exists =>
    (users[Sender].language_step = "ready"
       <=> (/\ users[Sender].source_lang # Null
            /\ users[Sender].target_lang # Null
            /\ users[Sender].voice_gender # Null))

\* C6: free_used of the sender never decreases, except in the step of a
\* billing webhook (no handler moves) that sets it to 0 with a paid plan.
C6_FreeUsedMonotonic ==
  [][\/ users'[Sender].free_used >= users[Sender].free_used
     \/ /\ h' = h
        /\ users'[Sender].free_used = 0
        /\ users'[Sender].plan \in {"MONTHLY", "ANNUAL", "LIFETIME"}
  ]_vars

\* C7: a reply that the wizard step of the row accepts is handled by that
\* wizard step, at or above the quota as below it.  The digits 1-3, which
\* the precedence order gives to the billing replies at the quota, are set
\* aside: the statement is about the other valid replies (4, 5, a language
\* code or name, a gender word).
C7_WizardNotGated ==
  [][\A s \in Slots :
       (/\ Routed(s)
        /\ users'[Sender].language_step \in {"ui", "target", "gender"}
        /\ ~IsTierDigit(h[s].text)
        /\ WizardAccepts(users'[Sender], h[s].text))
       => h'[s].pc = "wizard"
  ]_vars

\* C8: once the pipeline has detected the language of a ready user's message,
\* dest is source_lang when the detected language is target_lang and
\* target_lang otherwise; for en -> es, es gives en and fr gives es.
C8_DirectionFlip ==
  \A s \in Slots :
    h[s].pc \in {"usage", "reply"} =>
      /\ h[s].user.language_step = "ready"
      /\ h[s].detected = h[s].user.target_lang => h[s].dest = h[s].user.source_lang
      /\ h[s].detected # h[s].user.target_lang => h[s].dest = h[s].user.target_lang
      /\ (h[s].user.source_lang = "en" /\ h[s].user.target_lang = "es") =>
           /\ h[s].detected = "es" => h[s].dest = "en"
           /\ h[s].detected = "fr" => h[s].dest = "es"

\* C8 witness: an en -> es user's message detected as es is sent to en
C8_Witness ==
  /\ h["a"].pc = "usage"
  /\ h["a"].user.source_lang = "en" /\ h["a"].user.target_lang = "es"
  /\ h["a"].detected = "es" /\ h["a"].dest = "en"

Kinds(out) == [i \in 1..Len(out) |-> out[i].k]

\* C9: a request that went through the translation phase up to the reply has
\* sent transcript, translation, audio link (voice note, synthesis and upload
\* succeeded), transcript, translation (voice note, synthesis failed), or the
\* translation alone (text message), and nothing else.
C9_ReplyMessages ==
  \A s \in Slots :
    (h[s].pc = "done" /\ h[s].route = "pipeline" /\ h[s].tts # Null) =>
      /\ (h[s].num > 0 /\ h[s].tts = "ok") =>
           Kinds(h[s].out) = <<"transcript", "translation", "audio">>
      /\ (h[s].num > 0 /\ h[s].tts = "failed") =>
           Kinds(h[s].out) = <<"transcript", "translation">>
      /\ h[s].num = 0 => Kinds(h[s].out) = <<"translation">>

\* C9 witness: a voice note answered with all three messages
C9_Witness ==
  /\ h["a"].pc = "done" /\ h["a"].route = "pipeline" /\ h["a"].num = 1
  /\ h["a"].tts = "ok" /\ Len(h["a"].out) = 3

\* C10: the step of a request whose signature does not verify answers 400 and
\* leaves every row of the users table as it was, whatever the body names.
C10_BadSignature ==
  [][(\E req \in ForgedRequests : ForgedWebhook(req))
       => (stripeRes' = 400 /\ users' = users)
  ]_vars

\* C10 witness: forged events were rejected while a session of the sender is
\* open and the other user's subscription is alive
C10_Witness ==
  /\ stripeRes = 400
  /\ sessions # {}
  /\ users[Bystander].plan = "MONTHLY" /\ users[Sender].plan = "FREE"

\* the plan each tier stands for
TierPlan == [monthly |-> "MONTHLY", annual |-> "ANNUAL", life |-> "LIFETIME"]

\* the tier each digit stands for
DigitTier == [t \in {Txt1, Txt2, Txt3} |->
                IF t = Txt1 THEN "monthly" ELSE IF t = Txt2 THEN "annual" ELSE "life"]

\* C11: a session is created for the tier of the digit, in payment mode for
\* life and in subscription mode otherwise; the signed event of a completed
\* session is answered 200 and sets plan by the tier and free_used to 0 on the
\* rows whose stripe_cust_id is the session's customer; the other rows keep
\* every field.
C11_CheckoutCompleted ==
  /\ \A sess \in sessions :
       sess.mode = IF sess.tier = "life" THEN "payment" ELSE "subscription"
  /\ [][/\ \A s \in Slots :
            (h[s].pc = "session" /\ h'[s].pc = "done" /\ sessions' # sessions)
              => /\ h[s].text \in DOMAIN DigitTier
                 /\ \E sess \in sessions' :
                      /\ sessions' = sessions \cup {sess}
                      /\ sess.tier = DigitTier[h[s].text]
                      /\ sess.customer = h[s].cust
        /\ \A sess \in sessions :
            CheckoutCompleted(sess)
              => /\ stripeRes' = 200
                 /\ \A p \in Phones :
                      IF users[p].exists /\ users[p].stripe_cust_id = sess.customer
                      THEN /\ users'[p].plan = TierPlan[sess.tier]
                           /\ users'[p].free_used = 0
                      ELSE users'[p] = users[p]
     ]_vars

\* C11 witness: the sender, at the quota, picked 2 and paid: ANNUAL, count 0
C11_Witness ==
  /\ users[Sender].plan = "ANNUAL" /\ users[Sender].free_used = 0
  /\ users[Sender].stripe_sub_id = "sub_cus1_annual"
  /\ users[Bystander] = PaidRow
  /\ stripeRes = 200

\* C12: when the customer of a completed session is on no row, the sender,
\* for whom checkoutUrl created the session, is upgraded all the same: plan
\* by the tier, free_used 0, stripe_cust_id the session's customer.
C12_FallbackByUid ==
  [][\A sess \in sessions :
       (/\ CheckoutCompleted(sess)
        /\ \A p \in Phones : users[p].stripe_cust_id # sess.customer)
       => /\ users'[Sender].plan = TierPlan[sess.tier]
          /\ users'[Sender].free_used = 0
          /\ users'[Sender].stripe_cust_id = sess.customer
  ]_vars

\* C13: the signed event of a deleted subscription changes only the rows
\* whose stripe_sub_id is that subscription, and in them only plan, to FREE;
\* with no such row the table stays as it is.
C13_SubscriptionDeleted ==
  [][\A sub \in subs :
       SubscriptionDeleted(sub)
         => \A p \in Phones :
              IF users[p].exists /\ users[p].stripe_sub_id = sub
              THEN users'[p] = [users[p] EXCEPT !.plan = "FREE"]
              ELSE users'[p] = users[p]
  ]_vars

\* C13 witness: the sender subscribed and the subscription was deleted; the
\* row keeps its ids, its wizard fields and its count
C13_Witness ==
  /\ users[Sender].plan = "FREE"
  /\ users[Sender].stripe_sub_id = "sub_cus1_monthly"
  /\ users[Sender].stripe_cust_id = "cus1"
  /\ users[Sender].free_used = 0
  /\ users[Sender].language_step = "ready"
  /\ "sub_cus1_monthly" \notin subs

\* the six columns an error must not reset
Progress(row) ==
  <<row.language_step, row.source_lang, row.target_lang, row.voice_gender,
    row.plan, row.free_used>>

\* C14: every request has got exactly one response, the envelope, from the
\* moment it is accepted: before any message is sent or any row is written
\* for it, and still exactly one after handleIncoming ended, with or without
\* a failure.
C14_AckFirst ==
  /\ \A s \in Slots : h[s].pc # "idle" => h[s].ack = 1
  /\ [][\A s \in Slots :
          /\ (h[s].pc \notin {"idle", "done"} /\ h'[s] # h[s])
             => h[s].ack = 1 /\ h'[s].ack = 1
          /\ (h[s].fc = "pending" /\ h'[s].out # h[s].out) => h[s].ack = 1
     ]_vars

\* C14 witness: a voice note whose transcription failed twice: one response
C14_Witness ==
  /\ h["a"].pc = "done" /\ h["a"].err = "whisper" /\ h["a"].threw
  /\ h["a"].ack = 1

\* C15: a ready user's voice note whose transcription failed on both models
\* has brought the sender at least one message when its handling ends.
C15_WhisperFailureMessage ==
  \A s \in Slots :
    (h[s].pc = "done" /\ h[s].err = "whisper") => Len(h[s].out) >= 1

\* C16: while a request in which an external call failed is handled, the
\* existing row of the sender keeps language_step, source_lang, target_lang,
\* voice_gender, plan and free_used.
C16_ErrorsPreserveState ==
  [][\A s \in Slots :
       (h[s].err # Null /\ users[Sender].exists)
         => Progress(users'[Sender]) = Progress(users[Sender])
  ]_vars

\* C17: when the handling of a voice note has ended, neither its raw file
\* nor its WAV file is left.
C17_TempFilesRemoved ==
  \A s \in Slots : h[s].pc = "done" => ~h[s].raw /\ ~h[s].wav

Other(s) == IF s = "a" THEN "b" ELSE "a"

Last(seq) == seq[Len(seq)]

\* C18: when a reset command follows a reset command, the update of the
\* second leaves the row as the first left it, and the welcome menu it sends
\* is the message the first one sent.
C18_ResetTwice ==
  [][\A s \in Slots :
       (/\ h[s].pc = "reset" /\ h'[s].pc = "done"
        /\ h[Other(s)].pc = "done" /\ h[Other(s)].route = "reset")
       => /\ users' = users
          /\ h'[s].out = <<Last(h[Other(s)].out)>>
          /\ Last(h'[s].out) = Welcome
  ]_vars

\* C18 witness: a paying user has sent two reset commands in a row
C18_Witness ==
  /\ h["a"].pc = "done" /\ h["a"].route = "reset"
  /\ h["b"].pc = "done" /\ h["b"].route = "reset"
  /\ h["a"].out = <<Welcome>> /\ h["b"].out = <<Welcome>>
  /\ received = 2
  /\ users[Sender].plan = "LIFETIME"
  /\ WizardFields(users[Sender]) = <<"ui", Null, Null, Null, Null>>

\* C19: a sender without a row sends 3: the upsert creates the row at ui,
\* FREE, 0 and the same request goes on to the own-language step, whose update
\* stores fr as source_lang and ui_lang and moves to target, and which sends
\* the French how-it-works text and then the receive menu with the French
\* prompt.
C19_NewSenderThree ==
  [][\A s \in Slots :
       /\ (/\ h[s].pc = "upsert" /\ h'[s].pc # "upsert"
           /\ h[s].text = Txt3 /\ ~users[Sender].exists)
          => /\ users'[Sender].exists
             /\ WizardFields(users'[Sender]) = <<"ui", Null, Null, Null, Null>>
             /\ users'[Sender].plan = "FREE" /\ users'[Sender].free_used = 0
             /\ h'[s].pc = "wizard" /\ h'[s].text = Txt3
       /\ (/\ h[s].pc = "wizard" /\ h'[s].pc = "done"
           /\ h[s].text = Txt3 /\ h[s].user.language_step = "ui")
          => /\ WizardFields(users'[Sender]) = <<"target", "fr", Null, Null, "fr">>
             /\ users'[Sender].plan = users[Sender].plan
             /\ users'[Sender].free_used = users[Sender].free_used
             /\ h'[s].out = h[s].out \o <<[k |-> "how", l |-> "fr"],
                                           [k |-> "receiveMenu", l |-> "fr"]>>
  ]_vars

\* C19 witness: the new sender, welcomed by the first-contact check, holds a
\* French row at the receive-language step and got the two French messages
C19_Witness ==
  /\ h["a"].pc = "done" /\ h["a"].fc = "welcomed" /\ h["a"].route = "wizard"
  /\ h["a"].out = <<Welcome, [k |-> "how", l |-> "fr"], [k |-> "receiveMenu", l |-> "fr"]>>
  /\ WizardFields(users[Sender]) = <<"target", "fr", Null, Null, "fr">>
  /\ users[Sender].plan = "FREE" /\ users[Sender].free_used = 0

\* the static menu
StaticMenu ==
  [d \in {"1", "2", "3", "4", "5"} |->
     CASE d = "1" -> "en" [] d = "2" -> "es" [] d = "3" -> "fr"
       [] d = "4" -> "pt" [] d = "5" -> "de"]

\* C20: the update of a digit reply accepted at the own-language step stores
\* the menu's code of that digit as source_lang (and ui_lang), and at the
\* receive-language step as target_lang.
C20_DigitMapping ==
  [][\A s \in Slots :
       (/\ h[s].pc = "wizard" /\ h'[s].pc = "done"
        /\ Len(h[s].text) = 1 /\ h[s].text[1] \in DOMAIN StaticMenu)
       => /\ h[s].user.language_step = "ui"
               => /\ users'[Sender].source_lang = StaticMenu[h[s].text[1]]
                  /\ users'[Sender].ui_lang = StaticMenu[h[s].text[1]]
          /\ h[s].user.language_step = "target"
               => /\ users'[Sender].target_lang = StaticMenu[h[s].text[1]]
                  /\ users'[Sender].source_lang = users[Sender].source_lang
  ]_vars

\* C20 witness: 4 at the own-language step and 5 at the receive-language step
C20_Witness ==
  /\ users[Sender].source_lang = "pt" /\ users[Sender].target_lang = "de"
  /\ users[Sender].ui_lang = "pt" /\ users[Sender].language_step = "gender"

\* C21: a reply that the wizard step of the row does not accept is answered
\* with the re-prompt of that step and leaves the users table as it is.  The
\* reset commands and the digits 1-3, which the precedence order hands to the
\* reset and to the billing replies, are set aside.  (A request that creates
\* the row leaves it as created.)
C21_InvalidReplyReprompts ==
  [][\A s \in Slots :
       (/\ Routed(s)
        /\ users'[Sender].language_step \in {"ui", "target", "gender"}
        /\ ~IsResetCmd(h[s].text) /\ ~IsTierDigit(h[s].text)
        /\ ~WizardAccepts(users'[Sender], h[s].text))
       => /\ h'[s].pc = "done" /\ h'[s].route = "reprompt"
          /\ Last(h'[s].out).k \in {"reply1to5+chooseMenu", "reply1to5+receiveMenu",
                                    "targetDiff+receiveMenu", "genderErr"}
          /\ h[s].pc = "select" => users' = users
          /\ h[s].pc = "upsert" =>
               WizardFields(users'[Sender]) = <<"ui", Null, Null, Null, Null>>
  ]_vars

\* C22: a free user at or above the quota who sends neither a digit 1-3 nor
\* a reset command gets exactly one message, the paywall text; the request
\* ends there: no translation, no log entry, no write to the users table.
C22_PaywallStops ==
  [][\A s \in Slots :
       (/\ Routed(s) /\ h[s].pc = "select"
        /\ isFree(users[Sender]) /\ users[Sender].free_used >= Quota
        /\ ~IsTierDigit(h[s].text) /\ ~IsResetCmd(h[s].text))
       => /\ h'[s].pc = "done" /\ h'[s].route = "paywall"
          /\ h'[s].out = <<[k |-> "paywall",
                            l |-> IF users[Sender].ui_lang = Null THEN "en"
                                  ELSE users[Sender].ui_lang]>>
          /\ h'[s].detected = Null /\ h'[s].dest = Null
          /\ log' = log /\ users' = users
  ]_vars

\* C22 witness: an English-speaking free user who used up the quota got the
\* paywall text
C22_Witness ==
  /\ h["a"].pc = "done" /\ h["a"].route = "paywall"
  /\ h["a"].out = <<[k |-> "paywall", l |-> "en"]>>
  /\ users[Sender].free_used = Quota /\ users[Sender].plan = "FREE"
  /\ users[Sender].language_step = "ready" /\ Len(log) = 2

\* the direction and the voice of a user
Setup(row) == <<row.language_step, row.source_lang, row.target_lang, row.voice_gender>>

C24_ResetMidWizard001 ==
  [][\A s \in Slots :
       (/\ h[s].pc = "select" /\ h'[s].pc # "select"
        /\ IsResetCmd(h[s].text)
        /\ users[Sender].language_step \in {"receive", "gender"})
       => h'[s].pc = "reset" /\ h'[s].route = "reset"
  ]_vars

\* the step a wizard step stores, and the kind of its last message
StepAfter == [ui |-> "target", target |-> "gender", gender |-> "ready"]

LastReplyOf == [ui |-> "receiveMenu", target |-> "voice", gender |-> "setupDone"]

\* C25: a handler that read a wizard step and accepted the reply applies that
\* step's transition whatever the row holds by then: it writes the fields of
\* the step it read and sends that step's messages, also when another handler
\* of the same sender read the same step and wrote first.
C25_DoubleApply ==
  [][\A s \in Slots :
       (h[s].pc = "wizard" /\ h'[s].pc = "done")
       => LET step == h[s].user.language_step
              row  == users'[Sender]
          IN /\ row.language_step = StepAfter[step]
             /\ step = "ui" => /\ row.ui_lang = pickLang(h[s].text).code
                               /\ row.source_lang = pickLang(h[s].text).code
             /\ step = "target" => row.target_lang = pickLang(h[s].text).code
             /\ step = "gender" => row.voice_gender = pickGender(h[s].text)
             /\ Len(h'[s].out) = Len(h[s].out) + (IF step = "ui" THEN 2 ELSE 1)
             /\ Last(h'[s].out).k = LastReplyOf[step]
  ]_vars

\* C25 witness: two requests arrived for a sender at the receive-language
\* step, and both were answered with the messages of that step: both read the
\* step before either wrote, and both wrote
C25_Witness ==
  /\ received = 2
  /\ \A s \in Slots : /\ h[s].pc = "done" /\ h[s].route = "wizard"
                      /\ h[s].out = <<Msg("voice", "es")>>
  /\ users[Sender].language_step = "gender"
  /\ users[Sender].target_lang = "en"

\* C26: a free sender obtains at most Quota translations between two resets
\* of free_used: starting with StartUsed of them used, and as long as no
\* billing event has reset the count, the translations logged since then
\* fit into what was left of the quota.
C26_QuotaUnderConcurrency ==
  stripeRes = 0 => StartUsed + Len(log) <= Quota

\* C27: the customer of every checkout session is the stripe_cust_id on the
\* requesting sender's row when the session's completed event arrives, so the
\* event upgrades the sender to the plan of the session's tier.
C27_SessionCustomerOnRow ==
  [][\A sess \in sessions :
       CheckoutCompleted(sess)
       => /\ users[Sender].stripe_cust_id = sess.customer
          /\ users'[Sender].plan = TierPlan[sess.tier]
  ]_vars

\* the plans other than FREE
PaidPlans == {"MONTHLY", "ANNUAL", "LIFETIME"}

\* C28: while the stored plan of the sender is a paid one, no step of a
\* message handler changes free_used.
C28_NoUsageWriteWhilePaid ==
  [][(/\ h' # h
      /\ users[Sender].plan \in PaidPlans
      /\ users'[Sender].plan \in PaidPlans)
     => users'[Sender].free_used = users[Sender].free_used
  ]_vars

\* C29: one message at a time, free-plan user at ready.  The usage step of a
\* translated message stores free_used + 1 and appends one log entry whose
\* language_to is the computed destination, with no reply sent yet; free_used
\* grows and the log changes in no other step, so a message that fails in the
\* media fetch, the transcoding, the transcription, the language detection
\* or the translation leaves both alone; the log only grows at its end.
C29_UsageAndLog ==
  [][/\ \A s \in Slots :
          /\ (/\ h[s].pc = "usage" /\ h'[s].pc = "reply"
              /\ users[Sender].plan = "FREE")
             => /\ users'[Sender].free_used = users[Sender].free_used + 1
                /\ h[s].dest = (IF h[s].detected = users[Sender].target_lang
                                THEN users[Sender].source_lang
                                ELSE users[Sender].target_lang)
                /\ log' = Append(log, [phone_number |-> Sender,
                                       language_from |-> h[s].detected,
                                       language_to |-> h[s].dest])
                /\ h[s].out = << >> /\ h'[s].out = << >>
          /\ (/\ h[s].pc \in {"translate", "towav", "whisper"}
              /\ h'[s].pc = "done" /\ h'[s].threw)
             => /\ users' = users /\ log' = log
                /\ h'[s].out = << >>
     /\ (log' # log \/ users'[Sender].free_used > users[Sender].free_used)
          => \E s \in Slots : h[s].pc = "usage" /\ h'[s].pc = "reply"
     /\ Len(log') >= Len(log) /\ SubSeq(log', 1, Len(log)) = log
  ]_vars

\* C29 witness: a free user has had one message translated (free_used 3 to 4,
\* one log entry), and the next, a voice note, failed in the transcription:
\* the count and the log are as they were
C29_Witness ==
  /\ h["a"].pc = "done" /\ h["a"].err = "whisper" /\ h["a"].threw
  /\ Len(log) = 1 /\ log[1].language_to \in {"en", "es"}
  /\ users[Sender].plan = "FREE" /\ users[Sender].free_used = 4
  /\ users[Sender].language_step = "ready"

\* the storage calls of one kind among the calls of uploadAudio
CallsOf(up, c) == Cardinality({i \in 1..Len(up) : up[i].call = c})

\* C30: uploadAudio makes at most two uploads and at most one bucket
\* creation; when its first upload answered bucket-not-found and the call is
\* over, the bucket was created once and the upload retried once, and the
\* call failed exactly when the retried upload failed.
C30_BucketRetry ==
  \A s \in Slots :
    LET up == h[s].up IN
    /\ CallsOf(up, "upload") <= 2
    /\ CallsOf(up, "createBucket") <= 1
    /\ (h[s].pc = "done" /\ Len(up) >= 1 /\ up[1].res = "notfound")
       => /\ Len(up) = 3
          /\ up[2].call = "createBucket" /\ up[3].call = "upload"
          /\ h[s].tts = "failed" <=> up[3].res # "ok"

\* C31: whisper makes at most two transcription requests, the primary model
\* first; the secondary model is asked exactly when the primary request
\* failed; once whisper is over, the answer of the first request that
\* succeeded is what the handler holds, and whisper threw exactly when both
\* requests failed.
C31_WhisperFallback ==
  \A s \in Slots :
    LET asr == h[s].asr IN
    /\ Len(asr) <= 2
    /\ Len(asr) >= 1 => asr[1].model = "whisper-large-v3"
    /\ Len(asr) = 2 => asr[1].res = "error" /\ asr[2].model = "whisper-1"
    /\ (Len(asr) = 1 /\ asr[1].res = "error") => h[s].pc = "whisper"
    /\ (Len(asr) >= 1 /\ h[s].pc # "whisper")
       => /\ h[s].err = "whisper" <=> (Len(asr) = 2 /\ asr[2].res = "error")
          /\ h[s].err = "whisper" => h[s].pc = "done" /\ h[s].threw
          /\ h[s].pc = "usage" =>
               /\ asr[Len(asr)].res = "ok"
               /\ h[s].detected = asr[Len(asr)].lang

\* C31 witness: the primary request failed, the secondary answered, and the
\* handler goes on with the language of the secondary answer
C31_Witness ==
  /\ h["a"].pc = "usage" /\ Len(h["a"].asr) = 2
  /\ h["a"].asr[1].res = "error" /\ h["a"].asr[2].res = "ok"
  /\ h["a"].detected = "es" /\ h["a"].dest = "en"

\* C32: tts tries the picked voice, then the bare language code, then the
\* default voice: a name is tried only after every earlier one failed, the
\* first audio ends the call, and once tts is over without audio all three
\* names have been tried.
C32_TtsTiers ==
  \A s \in Slots :
    LET syn == h[s].syn IN
    /\ Len(syn) <= 3
    /\ \A i \in 1..Len(syn) :
         /\ i < Len(syn) => syn[i].res # "audio"
         /\ i = 1 => syn[i].name = h[s].voice
         /\ i = 2 => Len(syn[i].name) = 1
         /\ i = 3 => syn[i].name = DefaultVoice
    /\ (Len(syn) >= 1 /\ syn[Len(syn)].res = "audio") => h[s].pc # "synth"
    /\ (Len(syn) >= 1 /\ h[s].pc # "synth" /\ syn[Len(syn)].res # "audio")
       => Len(syn) = 3

\* the quality tier of a voice name: Neural2 over WaveNet over Standard
TierRank(name) ==
  IF \E j \in 1..Len(name) : name[j] = "Neural2" THEN 3
  ELSE IF \E j \in 1..Len(name) : name[j] = "WaveNet" THEN 2
  ELSE IF \E j \in 1..Len(name) : name[j] = "Standard" THEN 1
  ELSE 0

\* the voices of the cache for a language and a gender
VoicesOf(cache, lang, gender) ==
  IF lang \in DOMAIN cache
  THEN {cache[lang][i] : i \in {k \in 1..Len(cache[lang]) :
                                  cache[lang][k].ssmlGender = gender}}
  ELSE {}

\* C33: when the catalog holds voices of the requested language and gender,
\* pickVoice returns the name of one of them, and none of them is of a
\* higher quality tier than the returned one.  For English the voices meant
\* are the en-US ones of the gender when there are any (the region
\* preference).
C33_PickVoiceBest ==
  [][\A s \in Slots :
       (h[s].voice = Null /\ h'[s].voice # Null)
       => LET all  == VoicesOf(voiceCache'.voices, h[s].dest, h[s].user.voice_gender)
              us   == {v \in all : SubSeq(v.name, 1, 2) = <<"en", "US">>}
              cand == IF h[s].dest = "en" /\ us # {} THEN us ELSE all
          IN cand # {} =>
               /\ \E v \in cand : v.name = h'[s].voice
               /\ \A v \in cand : TierRank(v.name) <= TierRank(h'[s].voice)
  ]_vars

\* C34: once the voice cache has been assigned it is not assigned again and
\* does not become null again: a loaded cache keeps its value in every step.
C34_CacheAssignedOnce ==
  [][voiceCache.loaded => voiceCache' = voiceCache]_vars

\* the replies the menu offers: a digit 1-5, or a language code or name in
\* any case
IsMenuChoice(text) ==
  \/ Len(text) = 1 /\ text[1] \in DOMAIN MENU
  \/ \E d \in DOMAIN MENU :
       toLowerCase(text) \in {CodeText(MENU[d].code), toLowerCase(MENU[d].name)}

\* C35: at the own-language and the receive-language step a reply is taken
\* as a language selection only if it is a digit 1-5 or a language name or
\* code; any other reply is re-prompted and the row is left as it is.
C35_OnlyMenuChoices ==
  [][\A s \in Slots :
       (/\ Routed(s)
        /\ users'[Sender].language_step \in {"ui", "target"}
        /\ ~IsMenuChoice(h[s].text) /\ ~OverQuota(users'[Sender]))
       => /\ h'[s].pc = "done" /\ h'[s].route = "reprompt"
          /\ h[s].pc = "select" => users' = users
  ]_vars

\* C36: a row whose plan is LIFETIME holds no subscription id, so the event
\* of a deleted subscription leaves the plan of such a row alone.
C36_LifetimeHasNoSubscription ==
  /\ [](\A p \in Phones : users[p].plan = "LIFETIME" => users[p].stripe_sub_id = Null)
  /\ [][\A sub \in subs, p \in Phones :
          (SubscriptionDeleted(sub) /\ users[p].plan = "LIFETIME")
          => users'[p] = users[p]
       ]_vars

\* C36 witness: the sender paid a monthly link and then a lifetime link: the
\* plan is LIFETIME, the row holds no subscription id, and the monthly
\* subscription is still alive at the provider
C36_Witness ==
  /\ users[Sender].plan = "LIFETIME"
  /\ users[Sender].stripe_sub_id = Null
  /\ users[Sender].stripe_cust_id # Null
  /\ SubId(users[Sender].stripe_cust_id, "monthly") \in subs

\* the columns of payment and usage
Account(row) == <<row.exists, row.plan, row.free_used, row.stripe_cust_id, row.stripe_sub_id>>

\* C37: the update of a reset command leaves plan, free_used, stripe_cust_id
\* and stripe_sub_id as they are (and the rows of other senders altogether),
\* so a free user at or above the quota is at or above it after the reset.
C37_ResetKeepsAccount ==
  [][\A s \in Slots :
       (h[s].pc = "reset" /\ h'[s].pc = "done")
       => /\ Account(users'[Sender]) = Account(users[Sender])
          /\ users'[Bystander] = users[Bystander]
          /\ OverQuota(users[Sender]) => OverQuota(users'[Sender])
  ]_vars

\* C37 witness: a free user reached the quota, was reset, and the next
\* message was answered with the paywall text (in English, the row holding
\* no ui_lang any more) while the row is at the own-language step
C37_Witness ==
  /\ h["b"].pc = "done" /\ h["b"].route = "reset"
  /\ h["a"].pc = "done" /\ h["a"].route = "paywall"
  /\ h["a"].out = <<Msg("paywall", "en")>>
  /\ users[Sender].language_step = "ui"
  /\ users[Sender].plan = "FREE" /\ users[Sender].free_used = Quota


\* the requests whose first-contact check has sent the welcome menu
Welcomed == {t \in Slots : h[t].fc = "welcomed"}

\* C38: the welcome menu of the first-contact check is sent exactly once per
\* new sender, for any interleaving: a check sends the menu only if no other
\* request has sent it, and when handleIncoming creates the missing row the
\* menu has been sent by exactly one request (every later check finds the
\* row and sends nothing).
C38_WelcomeOnce ==
  [][\A s \in Slots :
       /\ (h[s].fc = "pending" /\ h'[s].fc = "welcomed") => Welcomed = {}
       /\ (h[s].pc = "upsert" /\ h'[s].pc # "upsert" /\ ~users[Sender].exists)
          => Cardinality(Welcomed) = 1
  ]_vars


\* C39: in the welcome-step build, with messages handled one at a time,
\* source_lang and target_lang of a user differ whenever both are set.
C39_LanguagesDiffer003 ==
  (users[Sender].source_lang # Null /\ users[Sender].target_lang # Null)
    => users[Sender].source_lang # users[Sender].target_lang


\* the error a failed PDF request answers with
PdfErrors ==
  [size |-> "pdfTooBig", extract |-> "pdfCantRead", build |-> "pdfCantBuild",
   upload |-> "pdfCantUpload"]

\* C40: in the PDF build, with requests handled one at a time, the users
\* table and the log change at one step of a PDF request only, the usage
\* step: it is taken after the notice and the file link were sent, adds
\* exactly 3 to free_used of a free user and appends exactly one log entry
\* with credits_used 3.  A PDF above 16 MB, a failed text extraction, a
\* failed PDF build and a failed upload end the request with exactly one
\* error message.
C40_PdfCredits ==
  [][LET s == h["a"]
         d == h'["a"]
         usage == s.pc = "pdf.usage" /\ d.pc = "done"
     IN
     /\ usage =>
          /\ s.out = <<Msg("pdfDone", "en"), Msg("pdfLink", s.user.target_lang)>>
          /\ d.out = s.out
          /\ isFree(users[Sender]) =>
               users' = [users EXCEPT ![Sender].free_used = users[Sender].free_used + 3]
          /\ Len(log') = Len(log) + 1
          /\ SubSeq(log', 1, Len(log)) = log
          /\ log'[Len(log')].credits_used = 3
          /\ log'[Len(log')].phone_number = Sender
     /\ ((s.route = "pdf" \/ d.route = "pdf") /\ ~usage) => (users' = users /\ log' = log)
     /\ (s.pc # "done" /\ d.pc = "done" /\ d.route = "pdf" /\ d.err \in DOMAIN PdfErrors)
          => d.out = <<Msg(PdfErrors[d.err], "en")>>
     /\ (s.pc = "select" /\ d.route = "pdf")
          => (s.mediaSize > 16000000 <=> (d.pc = "done" /\ d.err = "size"))
     /\ (s.pc = "pdf.extract" /\ d.pc = "done") => d.err \in {"extract", "empty"}
     /\ (s.pc = "pdf.build" /\ d.pc = "done") => d.err = "build"
     /\ (s.pc = "pdf.upload" /\ d.pc = "done") => d.err = "upload"
  ]_vars

\* C40 witness: a free user's PDF was answered with the notice and the file
\* link, free_used went from 7 to 10 and the log holds the one entry
C40_Witness ==
  /\ h["a"].pc = "done" /\ h["a"].route = "pdf" /\ h["a"].err = Null
  /\ ~h["a"].threw
  /\ h["a"].out = <<Msg("pdfDone", "en"), Msg("pdfLink", "es")>>
  /\ users[Sender].plan = "FREE" /\ users[Sender].free_used = StartUsedPdf + 3
  /\ Len(log) = 1 /\ log[1].credits_used = 3 /\ log[1].file_type = "PDF"

====
